---------------------------- MODULE Spec2Model ----------------------------
(***************************************************************************)
(* Table patchers of m4_addon_tools_gui.py: add_or_edit_player_plane,      *)
(* add_or_edit_skins, duplicate_aircraft_viewer, and the plane-id search   *)
(* of MainWindow.start_pipeline.                                           *)
(*                                                                         *)
(* Representation.  A Python string is the sequence of its character       *)
(* codes, so that sorted() on strings is the lexicographic order on code   *)
(* sequences.  An optional value (None or a value) is a sequence of        *)
(* length 0 or 1.  A table row is a record holding the properties the      *)
(* patchers read or write; a row named "Row_<n>" holds n.                  *)
(***************************************************************************)
EXTENDS Integers, Sequences, FiniteSets, TLC

VARIABLES
    pp,         \* PlayerPlane document: Exports[0].Table.Data, a sequence of rows
    ppNameMap,  \* PlayerPlane document: NameMap, <<>> when the key is absent, else <<list>>
    skin,       \* Skin document: Exports[0].Table.Data
    skinNameMap,\* Skin document: NameMap, <<>> when the key is absent, else <<list>>
    av,         \* AircraftViewer document: Exports[0].Table.Data
    heap,       \* the objects json.load and the copies have built: address -> object
    files,      \* the files in Data/ and Output/: file -> content
    dataDir,    \* the folder the form reads its inputs from (data_dir_edit)
    runBtn,     \* run_btn.isEnabled()
    workers,    \* the PipelineThread objects started so far, in order
    signals,    \* finished_signal emissions not yet delivered to on_pipeline_finished
    calls,      \* number of patcher calls made so far
    last        \* the last call: its arguments, the document before it, what it computed

vars == <<pp, ppNameMap, skin, skinNameMap, av, heap, files, dataDir, runBtn, workers,
          signals, calls, last>>

\* The variables of the form and its worker thread.
guiVars == <<files, dataDir, runBtn, workers, signals>>

\* The form closed: no files looked at, nothing running.
NoPipeline ==
    /\ files = <<>>
    /\ dataDir = "Data"
    /\ runBtn = TRUE
    /\ workers = <<>>
    /\ signals = <<>>

----------------------------------------------------------------------------
(* Bounds of the model *)

MaxCalls == 2
MaxSkins == 3
MaxViewerRows == 2

----------------------------------------------------------------------------
(* Program constants *)

FirstPlaneId == 101
LastPlaneId == 9999
DefaultRowNumber == 9999
FirstSkinId == 101
ViewerOffset == 294

----------------------------------------------------------------------------
(* Strings *)

EMPTY == <<>>
F18F == <<102, 49, 56, 102>>
F04E == <<102, 48, 52, 101>>
ABC1 == <<97, 98, 99, 49>>
AB == <<97, 98>>
TMPL == <<116>>

\* Python's str.__lt__: code-point lexicographic order, a proper prefix first.
RECURSIVE StrLess(_, _)
StrLess(s, t) ==
    IF s = <<>> THEN t # <<>>
    ELSE IF t = <<>> THEN FALSE
    ELSE IF s[1] # t[1] THEN s[1] < t[1]
    ELSE StrLess(Tail(s), Tail(t))

\* Python truthiness of a str, and of an Optional[int].
TruthyStr(s) == s # <<>>
TruthyInt(o) == o # <<>> /\ o[1] # 0

\* list(set(xs)) up to order: the first occurrence of every element.
RECURSIVE Dedup(_)
Dedup(xs) ==
    IF xs = <<>> THEN <<>>
    ELSE LET r == Dedup(SubSeq(xs, 1, Len(xs) - 1))
             x == xs[Len(xs)]
         IN IF \E i \in 1..Len(r) : r[i] = x THEN r ELSE Append(r, x)

\* Insert x into the sorted sequence xs, after the elements not greater than it.
RECURSIVE InsertStr(_, _)
InsertStr(xs, x) ==
    IF xs = <<>> THEN <<x>>
    ELSE IF StrLess(x, xs[1]) THEN <<x>> \o xs
    ELSE <<xs[1]>> \o InsertStr(Tail(xs), x)

\* sorted(xs) for a list of strings.
RECURSIVE SortedStr(_)
SortedStr(xs) ==
    IF xs = <<>> THEN <<>> ELSE InsertStr(SortedStr(Tail(xs)), xs[1])

\* xs.index(x): the 0-based position of the first x, <<>> for ValueError.
RECURSIVE ListIndexFrom(_, _, _)
ListIndexFrom(xs, x, k) ==
    IF xs = <<>> THEN <<>>
    ELSE IF xs[1] = x THEN <<k>>
    ELSE ListIndexFrom(Tail(xs), x, k + 1)

ListIndex(xs, x) == ListIndexFrom(xs, x, 0)

----------------------------------------------------------------------------
(* Path strings *)

\* f"/Game/Blueprint/Player/Pawn/AcePlayerPawn_{p}.AcePlayerPawn_{p}_C"
PawnClassPath(p) == [kind |-> "class", plane |-> p, suffix |-> <<>>]
\* f"/Game/Blueprint/Player/Pawn/AcePlayerPawn_{p}"
PawnPackagePath(p) == [kind |-> "package", plane |-> p, suffix |-> <<>>]

----------------------------------------------------------------------------
(* PlayerPlane patcher *)

\* player_plane_template.json: the row that ADD clones.
PlaneTemplate ==
    [Name |-> 0, PlaneID |-> 1, PlaneStringID |-> TMPL,
     AlphabeticalSortNumber |-> 0, SortNumber |-> 0, MaxHealth |-> 3,
     Reference |-> PawnClassPath(TMPL)]

\* next(item for item in data_array if PlaneStringID == s, None): index or 0.
RECURSIVE FirstWithFrom(_, _, _)
FirstWithFrom(table, s, k) ==
    IF k > Len(table) THEN 0
    ELSE IF table[k].PlaneStringID = s THEN k
    ELSE FirstWithFrom(table, s, k + 1)

\* The last row with the identity instead of the first: index or 0.
LastWith(table, s) ==
    LET at == {i \in 1..Len(table) : table[i].PlaneStringID = s}
    IN IF at = {} THEN 0 ELSE CHOOSE i \in at : \A j \in at : j <= i

FirstWith(table, s) == FirstWithFrom(table, s, 1)

\* f18f_default(name) for the stat field MaxHealth.
F18fDefault(table) ==
    LET f == FirstWith(table, F18F) IN IF f # 0 THEN table[f].MaxHealth ELSE 0

\* The index in the working array of new_element, and the working array.
EditsInPlace(table, mode, sid) == mode = "edit" /\ FirstWith(table, sid) # 0

RowName(pid) == IF TruthyInt(pid) THEN pid[1] ELSE DefaultRowNumber

WorkingArray(table, mode, sid, pid) ==
    IF EditsInPlace(table, mode, sid) THEN table
    ELSE Append(table, [PlaneTemplate EXCEPT !.Name = RowName(pid)])

NewElementIndex(table, mode, sid) ==
    IF EditsInPlace(table, mode, sid) THEN FirstWith(table, sid) ELSE Len(table) + 1

\* A PlaneID branch without the test of mode.
NoModeCheckPlaneID(mode, pid, cur) == IF TruthyInt(pid) THEN pid[1] ELSE cur

\* The PlaneID branch of the property walk: assigned only when adding.
NewPlaneID(mode, pid, cur) ==
    IF mode = "add" THEN (IF TruthyInt(pid) THEN pid[1] ELSE cur) ELSE cur

\* The stat branches of the property walk, for MaxHealth.
NewStat(table, mode, stat, cur) ==
    IF stat # <<>> THEN stat[1]
    ELSE IF mode = "add" THEN F18fDefault(table) ELSE cur

\* The property walk over new_element.
WalkProperties(table, row, mode, sid, pid, stat) ==
    [row EXCEPT !.PlaneID = NewPlaneID(mode, pid, row.PlaneID),
                !.PlaneStringID = sid,
                !.Reference = PawnClassPath(sid),
                !.MaxHealth = NewStat(table, mode, stat, row.MaxHealth)]

\* all_ids before sorting: the truthy PlaneStringID of every row, in row order.
RECURSIVE GatherIds(_)
GatherIds(table) ==
    IF table = <<>> THEN <<>>
    ELSE LET s == table[1].PlaneStringID
         IN IF TruthyStr(s) THEN <<s>> \o GatherIds(Tail(table))
            ELSE GatherIds(Tail(table))

\* all_ids without the sort.
UnsortedIds(table) == Dedup(GatherIds(table))

\* all_ids = sorted(set(all_ids))
AllIds(table) == SortedStr(Dedup(GatherIds(table)))

\* An append without the membership test.
AlwaysAppend(names, x) == Append(names, x)

\* NameMap registration: "if x not in NameMap: NameMap.append(x)".
AppendIfAbsent(names, x) ==
    IF \E i \in 1..Len(names) : names[i] = x THEN names ELSE Append(names, x)

RegisterNames(nm, sid) ==
    IF nm = <<>> THEN nm
    ELSE <<AppendIfAbsent(AppendIfAbsent(nm[1], PawnClassPath(sid)), PawnPackagePath(sid))>>

\* add_or_edit_player_plane on the loaded document (table, nm).  The result is
\* the saved document; when the call raises nothing is saved.
PatchPlayerPlane(table, nm, mode, sid, pid, stat) ==
    LET arr == WorkingArray(table, mode, sid, pid)
        k == NewElementIndex(table, mode, sid)
        walked == [arr EXCEPT ![k] = WalkProperties(table, arr[k], mode, sid, pid, stat)]
        alpha == ListIndex(AllIds(walked), sid)
    IN IF alpha = <<>>
       THEN [raised |-> TRUE, table |-> table, nm |-> nm, idx |-> 0]
       ELSE [raised |-> FALSE,
             table |-> [walked EXCEPT ![k].AlphabeticalSortNumber = alpha[1],
                                      ![k].SortNumber = alpha[1]],
             nm |-> RegisterNames(nm, sid),
             idx |-> k]

\* start_pipeline: the smallest id in 101..9999 that no row's PlaneID holds;
\* <<>> when the search calls sys.exit.
RECURSIVE ScanPlaneId(_, _)
ScanPlaneId(ids, n) ==
    IF n \in ids \/ ~(100 < n /\ n <= LastPlaneId)
    THEN (IF n + 1 > LastPlaneId THEN <<>> ELSE ScanPlaneId(ids, n + 1))
    ELSE <<n>>

ExistingPlaneIds(table) == {table[i].PlaneID : i \in 1..Len(table)}

NextFreePlaneId(table) == ScanPlaneId(ExistingPlaneIds(table), FirstPlaneId)

\* start_pipeline, mode add: the plane_id passed on.  text is the content of
\* plane_id_edit: <<n>> for a digit string of value n, <<>> otherwise.
GuiPlaneId(table, text) == IF text # <<>> THEN text ELSE NextFreePlaneId(table)


----------------------------------------------------------------------------
(* PlayerPlane documents the runs start from *)

PlaneRow(n, s, rank, health) ==
    [Name |-> n, PlaneID |-> n, PlaneStringID |-> s,
     AlphabeticalSortNumber |-> rank, SortNumber |-> rank, MaxHealth |-> health,
     Reference |-> PawnClassPath(s)]

RECURSIVE NamesOf(_)
NamesOf(table) ==
    IF table = <<>> THEN <<>>
    ELSE <<PawnClassPath(table[1].PlaneStringID), PawnPackagePath(table[1].PlaneStringID)>>
         \o NamesOf(Tail(table))

PlaneTableF18F == <<PlaneRow(101, F18F, 0, 9)>>
PlaneTableGap == <<PlaneRow(101, AB, 0, 4), PlaneRow(102, F18F, 2, 9), PlaneRow(104, ABC1, 1, 6)>>

InitPlaneDocs ==
    { <<(<<>>), <<(<<>>)>> >>,
      <<PlaneTableF18F, <<NamesOf(PlaneTableF18F)>> >>,
      <<PlaneTableF18F, <<>> >>,
      <<PlaneTableGap, <<NamesOf(PlaneTableGap)>> >>,
      <<PlaneTableF18F, <<NamesOf(PlaneTableF18F) \o NamesOf(PlaneTableF18F)>> >> }

PlaneStrings == {EMPTY, ABC1, F18F, AB}
PlaneIdArgs == {<<>>, <<0>>, <<103>>}
StatArgs == {<<>>, <<5>>}
Modes == {"add", "edit"}

NoCall == [op |-> "none"]

InitPlane ==
    /\ \E d \in InitPlaneDocs : pp = d[1] /\ ppNameMap = d[2]
    /\ skin = <<>>
    /\ skinNameMap = <<>>
    /\ av = <<>>
    /\ heap = <<>>
    /\ NoPipeline
    /\ calls = 0
    /\ last = NoCall

\* One call of add_or_edit_player_plane(input, ..., ui_values, mode, logger).
PlaneCall(op, mode, sid, pid, stat, text) ==
    LET r == PatchPlayerPlane(pp, ppNameMap, mode, sid, pid, stat)
    IN /\ pp' = r.table
       /\ ppNameMap' = r.nm
       /\ last' = [op |-> op, mode |-> mode, sid |-> sid, pid |-> pid, stat |-> stat,
                   text |-> text, pre |-> pp, preNM |-> ppNameMap,
                   raised |-> r.raised, idx |-> r.idx]
       /\ calls' = calls + 1
       /\ UNCHANGED <<skin, skinNameMap, av, heap, guiVars>>

\* The run is refused before the patcher is called (ValueError, sys.exit).
PlaneRefused(mode, sid, text) ==
    /\ last' = [op |-> "refused", mode |-> mode, sid |-> sid, pid |-> <<>>, stat |-> <<>>,
                text |-> text, pre |-> pp, preNM |-> ppNameMap,
                raised |-> TRUE, idx |-> 0]
    /\ calls' = calls + 1
    /\ UNCHANGED <<pp, ppNameMap, skin, skinNameMap, av, heap, guiVars>>

AddOrEditPlayerPlane ==
    /\ calls < MaxCalls
    /\ \E mode \in Modes, sid \in PlaneStrings, pid \in PlaneIdArgs, stat \in StatArgs :
          PlaneCall("direct", mode, sid, pid, stat, <<>>)

\* start_pipeline with the add radio checked, up to the PlayerPlane step.
StartPipelineAdd ==
    /\ calls < MaxCalls
    /\ \E sid \in PlaneStrings, text \in PlaneIdArgs, stat \in StatArgs :
          LET pid == GuiPlaneId(pp, text)
          IN IF pid = <<>> \/ ~TruthyStr(sid)
             THEN PlaneRefused("add", sid, text)
             ELSE PlaneCall("gui", "add", sid, pid, stat, text)

\* start_pipeline with the edit radio checked: the identity picked in
\* existing_combo, the id loaded with it.
ComboChoices(table) == {table[i].PlaneStringID : i \in 1..Len(table)} \cup {EMPTY}

StartPipelineEdit ==
    /\ calls < MaxCalls
    /\ \E sid \in ComboChoices(pp), stat \in StatArgs :
          IF NextFreePlaneId(pp) = <<>> \/ ~TruthyStr(sid)
          THEN PlaneRefused("edit", sid, <<>>)
          ELSE PlaneCall("gui", "edit", sid, <<pp[FirstWith(pp, sid)].PlaneID>>, stat, <<>>)

NextPlane == AddOrEditPlayerPlane \/ StartPipelineAdd \/ StartPipelineEdit

SpecPlane == InitPlane /\ [][NextPlane]_vars

----------------------------------------------------------------------------
(* Properties of the PlayerPlane patcher, checked under SpecPlane *)

\* The last call ran add_or_edit_player_plane to its save_json.
PlanePatched == last.op \in {"direct", "gui"} /\ ~last.raised

UniqueIds(table) ==
    \A i, j \in 1..Len(table) :
        i # j => table[i].PlaneStringID # table[j].PlaneStringID

\* The 0-based rank of s among the distinct non-empty identities of table:
\* the number of identities that precede it.
Rank(table, s) ==
    Cardinality({t \in {table[i].PlaneStringID : i \in 1..Len(table)} :
                    TruthyStr(t) /\ StrLess(t, s)})

RowRanked(table, i) ==
    /\ table[i].AlphabeticalSortNumber = Rank(table, table[i].PlaneStringID)
    /\ table[i].SortNumber = Rank(table, table[i].PlaneStringID)

\* C1: starting from a table with one row per PlaneStringID, after any
\* sequence of add/edit calls (an ADD of an identity already present
\* included) no two rows carry the same PlaneStringID.
C1_OneRowPerIdentity == UniqueIds(pp)

\* C3: starting from a table whose rows all carry their rank, after any
\* sequence of add/edit calls every row (not only the patched one) has
\* AlphabeticalSortNumber = SortNumber = the rank of its PlaneStringID.
C3_EveryRowRanked == \A i \in 1..Len(pp) : RowRanked(pp, i)

\* C4: after an ADD of a non-empty identity the appended row's
\* AlphabeticalSortNumber and SortNumber equal the 0-based index of its
\* PlaneStringID among the sorted distinct identities of the table after the
\* insert.
C4_AddedRowRank ==
    (PlanePatched /\ last.mode = "add") =>
        /\ Len(pp) = Len(last.pre) + 1
        /\ pp[Len(pp)].PlaneStringID = last.sid
        /\ RowRanked(pp, Len(pp))

\* C4's scenario: "abc1" added to an empty table gets 0.
C4_AddToEmptyGetsZero ==
    /\ PlanePatched /\ last.mode = "add"
    /\ last.pre = <<>> /\ last.sid = ABC1
    /\ pp[1].AlphabeticalSortNumber = 0

\* C5: an EDIT of an identity that has a row leaves that row's PlaneID as it
\* was, whatever plane_id the caller passes.
C5_EditKeepsPlaneID ==
    (PlanePatched /\ last.mode = "edit" /\ FirstWith(last.pre, last.sid) # 0) =>
        LET k == FirstWith(last.pre, last.sid)
        IN /\ Len(pp) = Len(last.pre)
           /\ pp[k].PlaneID = last.pre[k].PlaneID

\* An EDIT of an existing row that was passed a different, non-zero plane_id.
C5_EditWithOtherId ==
    /\ PlanePatched /\ last.mode = "edit" /\ FirstWith(last.pre, last.sid) # 0
    /\ TruthyInt(last.pid)
    /\ last.pid[1] # last.pre[FirstWith(last.pre, last.sid)].PlaneID

\* The smallest integer from 101 on that is the PlaneID of no row.
SmallestFreePlaneId(table) ==
    CHOOSE n \in FirstPlaneId..(FirstPlaneId + Len(table)) :
        /\ n \notin ExistingPlaneIds(table)
        /\ \A m \in FirstPlaneId..(n - 1) : m \in ExistingPlaneIds(table)

\* C8: a run in ADD mode gives the new row the smallest id in 101..9999 that
\* no existing row holds when no plane id was typed (the search ends with
\* one), and the typed id when a numeric id was typed.
C8_AddedPlaneID ==
    (PlanePatched /\ last.op = "gui" /\ last.mode = "add") =>
        /\ NextFreePlaneId(last.pre) # <<>>
        /\ last.text = <<>> => pp[Len(pp)].PlaneID = SmallestFreePlaneId(last.pre)
        /\ last.text # <<>> => pp[Len(pp)].PlaneID = last.text[1]

\* C13: the stat field of the patched row is the override when one was
\* passed; else the value of the "f18f" row when the table has one; else the
\* value the field had in the template (a new row) or in the row (an edit in
\* place).
C13_StatValue ==
    PlanePatched =>
        LET k == last.idx
            f == FirstWith(last.pre, F18F)
            prior == IF EditsInPlace(last.pre, last.mode, last.sid)
                     THEN last.pre[k].MaxHealth ELSE PlaneTemplate.MaxHealth
        IN pp[k].MaxHealth =
              IF last.stat # <<>> THEN last.stat[1]
              ELSE IF f # 0 THEN last.pre[f].MaxHealth
              ELSE prior

\* The number of occurrences of x in the list names.
Occurrences(names, x) == Cardinality({i \in 1..Len(names) : names[i] = x})

MaxOf(a, b) == IF a >= b THEN a ELSE b

\* C16: on a document with a NameMap, after a call both path strings of the
\* patched identity are in NameMap, and no string occurs in it more often
\* than max(1, its count before the call); the bound carries over every
\* sequence of calls, max(1, max(1, c)) being max(1, c).
C16_NameMapIdempotent ==
    (PlanePatched /\ last.preNM # <<>>) =>
        /\ ppNameMap # <<>>
        /\ Occurrences(ppNameMap[1], PawnClassPath(last.sid)) >= 1
        /\ Occurrences(ppNameMap[1], PawnPackagePath(last.sid)) >= 1
        /\ pp[last.idx].Reference = PawnClassPath(last.sid)
        /\ \A i \in 1..Len(ppNameMap[1]) :
              Occurrences(ppNameMap[1], ppNameMap[1][i]) <=
                  MaxOf(1, Occurrences(last.preNM[1], ppNameMap[1][i]))

\* The same identity patched again: nothing is appended to a NameMap that
\* the first call extended.
C16_SecondPatchAppendsNothing ==
    /\ PlanePatched /\ last.sid = ABC1 /\ calls = 2
    /\ last.preNM # <<>>
    /\ Occurrences(last.preNM[1], PawnClassPath(ABC1)) = 1
    /\ Len(last.pre) = 1
    /\ ppNameMap = last.preNM

\* The places of the rows of table that carry the identity s.
PlacesOf(table, s) == {i \in 1..Len(table) : table[i].PlaneStringID = s}

\* C26: add_or_edit_player_plane in mode edit, on an identity that at least
\* one row carries, leaves the table with the same number of rows in the same
\* order, and every row other than the first one carrying the identity is
\* exactly as it was, later rows with the same identity included.
C26_EditTouchesFirstRowOnly ==
    (PlanePatched /\ last.mode = "edit" /\ PlacesOf(last.pre, last.sid) # {}) =>
        LET first == CHOOSE i \in PlacesOf(last.pre, last.sid) :
                        \A j \in PlacesOf(last.pre, last.sid) : i <= j
        IN /\ Len(pp) = Len(last.pre)
           /\ \A i \in 1..Len(last.pre) :
                 i <= Len(pp) =>
                    /\ pp[i].Name = last.pre[i].Name
                    /\ i # first => pp[i] = last.pre[i]
           /\ last.idx = first

\* An edit of "abc1" with MaxHealth 5 on a table where two rows carry "abc1":
\* the first of them took the 5, the second kept its MaxHealth.
C26_EditOfDuplicatedIdentity ==
    /\ PlanePatched /\ last.mode = "edit" /\ last.sid = ABC1 /\ last.stat = <<5>>
    /\ Cardinality(PlacesOf(last.pre, ABC1)) = 2
    /\ \E i, j \in PlacesOf(pp, ABC1) :
          /\ i < j
          /\ last.pre[i].MaxHealth # 5 /\ pp[i].MaxHealth = 5
          /\ last.pre[j].MaxHealth # 5 /\ pp[j] = last.pre[j]

\* C27: add_or_edit_player_plane in mode edit with a (non-empty) identity
\* that no row carries does not raise and appends one row to the table, the
\* rows before it unchanged: a clone of the template named Row_<plane_id>, or
\* Row_9999 when no plane_id is supplied, whose PlaneStringID is the identity
\* and whose PlaneID is the template's, whatever plane_id was supplied.
C27_EditOfAbsentIdentity ==
    (last.op \in {"direct", "gui"} /\ last.mode = "edit" /\ TruthyStr(last.sid)
        /\ PlacesOf(last.pre, last.sid) = {}) =>
        /\ ~last.raised
        /\ Len(pp) = Len(last.pre) + 1
        /\ SubSeq(pp, 1, Len(last.pre)) = last.pre
        /\ Len(pp) > 0 =>
              /\ pp[Len(pp)].Name = (IF last.pid = <<>> THEN DefaultRowNumber ELSE last.pid[1])
              /\ pp[Len(pp)].PlaneStringID = last.sid
              /\ pp[Len(pp)].PlaneID = PlaneTemplate.PlaneID

----------------------------------------------------------------------------
(* Skin patcher *)

\* str(n): the decimal digits of n >= 0.
RECURSIVE Digits(_)
Digits(n) == IF n < 10 THEN <<n>> ELSE Digits(n \div 10) \o <<n % 10>>

\* str(n) in place of the padded form.
Unpadded(n) == Digits(n)

\* f"{n:02d}"
Format02d(n) == IF Len(Digits(n)) < 2 THEN <<0>> \o Digits(n) ELSE Digits(n)

\* f"/Game/Blueprint/Player/Pawn/Skin/AcePlayerPawn_{p}_s{suffix}.AcePlayerPawn_{p}_s{suffix}_C"
SkinClassPath(p, suffix) == [kind |-> "skin", plane |-> p, suffix |-> suffix]

\* skin_template.json: the row that make_entry copies.
SkinTemplate ==
    [Name |-> 0, SkinID |-> 0, SortNumber |-> 0, SkinNo |-> 0, PlaneStringID |-> TMPL,
     bNoseEmblem |-> FALSE, bWingEmblem |-> FALSE, bTailEmblem |-> FALSE,
     PlaneReference |-> PawnClassPath(TMPL)]

\* A filter that removes nothing.
KeepPlaneSkins(table, sid) == table

\* The edit-mode filter: the rows of the other planes, in order.
RemovePlaneSkins(table, sid) == SelectSeq(table, LAMBDA e : e.PlaneStringID # sid)

\* A filter applied in both modes.
FilterInBothModes(table, sid, mode) == RemovePlaneSkins(table, sid)

\* data_array after the edit-mode filter.
RemainingSkins(table, sid, mode) ==
    IF mode = "edit" THEN RemovePlaneSkins(table, sid) ELSE table

\* sorted(xs) for a list of integers.
RECURSIVE InsertInt(_, _)
InsertInt(xs, x) ==
    IF xs = <<>> THEN <<x>>
    ELSE IF x < xs[1] THEN <<x>> \o xs
    ELSE <<xs[1]>> \o InsertInt(Tail(xs), x)

RECURSIVE SortedInt(_)
SortedInt(xs) ==
    IF xs = <<>> THEN <<>> ELSE InsertInt(SortedInt(Tail(xs)), xs[1])

\* used_ids: the first property (SkinID) of every row, sorted.
UsedIds(table) == SortedInt([i \in 1..Len(table) |-> table[i].SkinID])

\* The loop over used_ids: skip ids below 101, stop at the first id that is
\* not next_skin_id, else step.  The ids of the model are integers, so int(uid)
\* is uid.
RECURSIVE ScanUsedIds(_, _)
ScanUsedIds(ids, next) ==
    IF ids = <<>> THEN next
    ELSE IF ids[1] < FirstSkinId THEN ScanUsedIds(Tail(ids), next)
    ELSE IF ids[1] # next THEN next
    ELSE ScanUsedIds(Tail(ids), next + 1)

NextSkinId(table) == ScanUsedIds(UsedIds(table), FirstSkinId)

\* The PlaneReference branch of make_entry.
PlaneReference(plane, skin_no) ==
    IF skin_no = 0 THEN PawnClassPath(plane)
    ELSE SkinClassPath(plane, Format02d(skin_no))

MakeEntry(skin_id, plane, emblems, skin_no) ==
    [SkinTemplate EXCEPT !.Name = skin_id,
                         !.SkinID = skin_id,
                         !.SortNumber = skin_id,
                         !.SkinNo = skin_no,
                         !.PlaneStringID = plane,
                         !.bNoseEmblem = emblems.nose,
                         !.bWingEmblem = emblems.wing,
                         !.bTailEmblem = emblems.tail,
                         !.PlaneReference = PlaneReference(plane, skin_no)]

\* A loop that offsets the id by the descriptor's skin_no.
AppendSkinsBySkinNo(table, sid, skins, next) ==
    table \o [i \in 1..Len(skins) |->
                 MakeEntry(next + skins[i].skin_no, sid, skins[i].emblems, skins[i].skin_no)]

\* The loop over skins: one entry per descriptor, next_skin_id stepped by one.
RECURSIVE AppendSkins(_, _, _, _)
AppendSkins(table, sid, skins, next) ==
    IF skins = <<>> THEN table
    ELSE AppendSkins(Append(table, MakeEntry(next, sid, skins[1].emblems, skins[1].skin_no)),
                     sid, Tail(skins), next + 1)

\* A patch that searches next_skin_id among the ids of the table as loaded,
\* the rows it is about to remove included.
PatchSkinsIdsBefore(table, sid, skins, mode) ==
    LET rem == RemainingSkins(table, sid, mode)
        start == NextSkinId(table)
    IN [table |-> AppendSkins(rem, sid, skins, start), start |-> start]

\* add_or_edit_skins on the loaded table: the saved table and the
\* next_skin_id found before the loop.
PatchSkins(table, sid, skins, mode) ==
    LET rem == RemainingSkins(table, sid, mode)
        start == NextSkinId(rem)
    IN [table |-> AppendSkins(rem, sid, skins, start), start |-> start]

----------------------------------------------------------------------------
(* Skin documents and arguments *)

NoEmblems == [nose |-> FALSE, wing |-> FALSE, tail |-> FALSE]

SkinRow(n, s, skin_no) == MakeEntry(n, s, NoEmblems, skin_no)

\* Ids 101, 102, 104: a gap of one followed by an occupied id.
SkinTableGap == <<SkinRow(101, F18F, 0), SkinRow(102, F18F, 1), SkinRow(104, ABC1, 0)>>
\* An id below the floor, and the floor.
SkinTableLow == <<SkinRow(7, ABC1, 0), SkinRow(101, F18F, 0)>>

InitSkinTables == {<<>>, SkinTableGap, SkinTableLow}

RECURSIVE SkinNamesOf(_)
SkinNamesOf(table) ==
    IF table = <<>> THEN <<>>
    ELSE <<table[1].PlaneReference>> \o SkinNamesOf(Tail(table))

SkinPlanes == {ABC1, F18F}

\* Descriptors as the form numbers them (skin_no 0, 1, 2, ...), and a list
\* whose skin numbers descend to 0.
SkinListUp(k) ==
    [i \in 1..k |-> [skin_no |-> i - 1,
                     emblems |-> [nose |-> i = 1, wing |-> FALSE, tail |-> FALSE]]]

SkinListDown(k) ==
    [i \in 1..k |-> [skin_no |-> 2 * (k - i),
                     emblems |-> [nose |-> FALSE, wing |-> TRUE, tail |-> i = k]]]

\* Skin numbers over the range of the form's spin box (0..999), in no order.
WideSkinNumbers == <<2, 100, 0, 45, 999, 10, 7, 99>>

SkinListWide(k) ==
    [i \in 1..k |-> [skin_no |-> WideSkinNumbers[i],
                     emblems |-> [nose |-> TRUE, wing |-> TRUE, tail |-> FALSE]]]

SkinLists ==
    {SkinListUp(k) : k \in 0..MaxSkins} \cup {SkinListDown(k) : k \in 0..MaxSkins}
        \cup {SkinListWide(k) : k \in 1..MaxSkins}

InitSkin ==
    /\ pp = <<>>
    /\ ppNameMap = <<>>
    /\ skin \in InitSkinTables
    /\ skinNameMap = <<SkinNamesOf(skin)>>
    /\ av = <<>>
    /\ heap = <<>>
    /\ NoPipeline
    /\ calls = 0
    /\ last = NoCall

\* One call of add_or_edit_skins(input, ..., plane_string_id, skins, mode, logger).
AddOrEditSkins ==
    /\ calls < MaxCalls
    /\ \E mode \in Modes, sid \in SkinPlanes, skins \in SkinLists :
          LET r == PatchSkins(skin, sid, skins, mode)
          IN /\ skin' = r.table
             /\ last' = [op |-> "skins", mode |-> mode, sid |-> sid, skins |-> skins,
                         pre |-> skin, start |-> r.start]
             /\ calls' = calls + 1
             /\ UNCHANGED <<pp, ppNameMap, skinNameMap, av, heap, guiVars>>

NextSkin == AddOrEditSkins

SpecSkin == InitSkin /\ [][NextSkin]_vars

----------------------------------------------------------------------------
(* Properties of the Skin patcher, checked under SpecSkin *)

SkinPatched == last.op = "skins"

DistinctSkinIds(table) ==
    \A i, j \in 1..Len(table) : i # j => table[i].SkinID # table[j].SkinID

\* The rows of the saved table that the last call appended start after this index.
KeptRows == Len(skin) - Len(last.skins)

CountOfPlane(table, sid) ==
    Cardinality({i \in 1..Len(table) : table[i].PlaneStringID = sid})

\* C2: a run on a table with pairwise distinct SkinIDs assigns ids >= 101,
\* strictly increasing, none equal to the SkinID of a row it found in the
\* table, so the SkinIDs stay pairwise distinct.
C2_AssignedIdsFresh ==
    (SkinPatched /\ DistinctSkinIds(last.pre)) =>
        /\ \A i \in (KeptRows + 1)..Len(skin) :
              /\ skin[i].SkinID >= FirstSkinId
              /\ i > KeptRows + 1 => skin[i].SkinID > skin[i - 1].SkinID
              /\ \A j \in 1..KeptRows : skin[j].SkinID # skin[i].SkinID
        /\ DistinctSkinIds(skin)

\* C6: after an EDIT the rows of the target plane are exactly the
\* len(skins) new ones: the plane's prior rows are gone, the other planes'
\* rows are all there.
C6_EditReplacesAll ==
    (SkinPatched /\ last.mode = "edit") =>
        /\ CountOfPlane(skin, last.sid) = Len(last.skins)
        /\ Len(skin) = Len(last.pre) - CountOfPlane(last.pre, last.sid) + Len(last.skins)

\* An EDIT that found rows of the plane, more or fewer than it was given.
C6_EditReplacedRows ==
    /\ SkinPatched /\ last.mode = "edit"
    /\ CountOfPlane(last.pre, last.sid) > 0
    /\ Len(last.skins) > 0
    /\ CountOfPlane(last.pre, last.sid) # Len(last.skins)

IdsOf(table) == {table[i].SkinID : i \in 1..Len(table)}

\* C7: the start id is the smallest integer >= 101 that is the SkinID of no
\* row remaining in the table, 101 for an empty table.
C7_StartIsFirstFree ==
    SkinPatched =>
        LET used == IdsOf(RemainingSkins(last.pre, last.sid, last.mode))
        IN /\ last.start >= FirstSkinId
           /\ last.start \notin used
           /\ \A m \in FirstSkinId..(last.start - 1) : m \in used

\* C9: the row made from the i-th descriptor gets SkinID start + i (from 0),
\* whatever its skin_no: one run's ids are start..start+k-1 in list order.
C9_ContiguousBlock ==
    SkinPatched =>
        /\ KeptRows = Len(RemainingSkins(last.pre, last.sid, last.mode))
        /\ \A i \in 1..Len(last.skins) :
              /\ skin[KeptRows + i].SkinID = last.start + i - 1
              /\ skin[KeptRows + i].SkinNo = last.skins[i].skin_no

\* C9's scenario: three skins from next-free 101 get 101, 102, 103, the
\* first of them a descriptor whose skin_no is not 0.
C9_ThreeFrom101 ==
    /\ SkinPatched /\ Len(last.skins) = 3 /\ last.start = FirstSkinId
    /\ last.skins[1].skin_no # 0
    /\ [i \in 1..3 |-> skin[KeptRows + i].SkinID] = <<101, 102, 103>>

\* The rows of table that belong to a plane other than sid, in order.
RowsOfOthers(table, sid) == SelectSeq(table, LAMBDA e : e.PlaneStringID # sid)

\* C12: in both modes the rows of the other planes are in the saved table as
\* they were, in the same relative order; in mode add the whole prior table
\* is kept; every new row comes after every row that was kept.
C12_OtherPlanesUntouched ==
    SkinPatched =>
        /\ RowsOfOthers(skin, last.sid) = RowsOfOthers(last.pre, last.sid)
        /\ last.mode = "add" =>
              /\ Len(skin) = Len(last.pre) + Len(last.skins)
              /\ SubSeq(skin, 1, Len(last.pre)) = last.pre
        /\ last.mode = "edit" =>
              /\ Len(skin) = Len(RowsOfOthers(last.pre, last.sid)) + Len(last.skins)
              /\ SubSeq(skin, 1, KeptRows) = RowsOfOthers(last.pre, last.sid)
        /\ \A i \in 1..Len(last.skins) :
              /\ skin[KeptRows + i].PlaneStringID = last.sid
              /\ skin[KeptRows + i].SkinNo = last.skins[i].skin_no
              /\ skin[KeptRows + i].bNoseEmblem = last.skins[i].emblems.nose

\* An ADD of two skins for "f18f" to a table that holds rows of "f18f" and of
\* "abc1": the three prior rows first, then the two new ones.
C12_AddKeepsAllRows ==
    /\ SkinPatched /\ last.mode = "add" /\ last.sid = F18F
    /\ last.pre = SkinTableGap /\ Len(last.skins) = 2
    /\ Len(skin) = 5 /\ skin[3] = SkinTableGap[3]

\* The number that a sequence of decimal digits writes.
RECURSIVE DigitsValue(_)
DigitsValue(d) ==
    IF d = <<>> THEN 0 ELSE 10 * DigitsValue(SubSeq(d, 1, Len(d) - 1)) + d[Len(d)]

IsDigits(d) == \A i \in 1..Len(d) : d[i] \in 0..9

\* The PlaneReference that row i of the saved table should carry for skin
\* number n, given the length its suffix may have.
ReferenceWritesNumber(ref, p, n, lengths) ==
    IF n = 0 THEN ref = PawnClassPath(p)
    ELSE /\ ref.kind = "skin" /\ ref.plane = p
         /\ IsDigits(ref.suffix) /\ DigitsValue(ref.suffix) = n
         /\ Len(ref.suffix) \in lengths

\* C14 as stated: the PlaneReference of a new row is the base path of the
\* plane when its skin number is 0, else the Skin path whose suffix is the
\* skin number written with exactly two digits.
C14_TwoDigitSuffix ==
    SkinPatched =>
        \A i \in 1..Len(last.skins) :
            ReferenceWritesNumber(skin[KeptRows + i].PlaneReference, last.sid,
                                  last.skins[i].skin_no, {2})

\* C14 amended: the suffix is the skin number padded with a zero to two
\* digits when it is below 10, its two digits up to 99, and its own (three)
\* digits from 100 on.
C14_PaddedSuffix ==
    SkinPatched =>
        \A i \in 1..Len(last.skins) :
            LET n == last.skins[i].skin_no
            IN ReferenceWritesNumber(skin[KeptRows + i].PlaneReference, last.sid, n,
                                     IF n < 100 THEN {2} ELSE {3})

\* Skins 2, 100 and 0 of "abc1": _s02, _s100 and the base path.
C14_Skins2And100And0 ==
    /\ SkinPatched /\ last.sid = ABC1 /\ last.skins = SkinListWide(3)
    /\ skin[KeptRows + 1].PlaneReference = SkinClassPath(ABC1, <<0, 2>>)
    /\ skin[KeptRows + 2].PlaneReference = SkinClassPath(ABC1, <<1, 0, 0>>)
    /\ skin[KeptRows + 3].PlaneReference = PawnClassPath(ABC1)

\* C17: on a document with a NameMap, the path the patcher wrote into the
\* Reference (PlayerPlane) or PlaneReference (Skin) of a new row is an
\* element of that document's NameMap after the call.
C17_ReferencesRegistered ==
    /\ (PlanePatched /\ ppNameMap # <<>>) =>
           Occurrences(ppNameMap[1], pp[last.idx].Reference) >= 1
    /\ (SkinPatched /\ skinNameMap # <<>>) =>
           \A i \in 1..Len(last.skins) :
               Occurrences(skinNameMap[1], skin[KeptRows + i].PlaneReference) >= 1

\* C28: after add_or_edit_skins in mode edit on a table with pairwise
\* distinct SkinIDs, the same call once more (same plane, same descriptors)
\* saves exactly the table the first call saved: same rows, same SkinIDs,
\* same order.
C28_EditTwiceIsEditOnce ==
    (SkinPatched /\ last.mode = "edit" /\ DistinctSkinIds(last.pre)) =>
        PatchSkins(skin, last.sid, last.skins, "edit").table = skin

\* The second of two edits in a row: it found the rows the first one had
\* made for the plane, next to rows of another plane, and saved the table as
\* it found it.
C28_SecondEditChangedNothing ==
    /\ SkinPatched /\ last.mode = "edit" /\ calls = 2
    /\ Len(last.skins) >= 2
    /\ CountOfPlane(last.pre, last.sid) = Len(last.skins)
    /\ Len(last.pre) > Len(last.skins)
    /\ \E i \in 1..Len(last.pre) : last.pre[i].bNoseEmblem
    /\ skin = last.pre

----------------------------------------------------------------------------
(* AircraftViewer patcher *)

\* A row name: "Row_<n>" followed by tail (kind "row", what Row_(\d+) matches
\* at the start), or a name the pattern does not match (kind "other").
RowNamed(n) == [kind |-> "row", n |-> n, tail |-> ""]
RowNamedWithTail(n) == [kind |-> "row", n |-> n, tail |-> "x"]
OtherName == [kind |-> "other", n |-> 0, tail |-> "Default"]

\* An AircraftViewerID value: an int, a str of digits, a str that int()
\* rejects, None, or no such property in the row.
IntValue(v) == [kind |-> "int", v |-> v]
DigitString(v) == [kind |-> "digits", v |-> v]
TextValue == [kind |-> "text", v |-> 0]
NoneValue == [kind |-> "none", v |-> 0]
NoProperty == [kind |-> "absent", v |-> 0]

\* A copy that keeps the name.
SameRowName(name) == name

\* A conversion that yields a number for every value.
ForcedViewerId(id) == IntValue(id.v + ViewerOffset)

\* re.match(r"Row_(\d+)", name) and f"Row_{int(match.group(1)) + 294}"
NewRowName(name) ==
    IF name.kind = "row" THEN RowNamed(name.n + ViewerOffset) ELSE name

\* int(prop["Value"]) + 294, the value kept when int() raises.
NewViewerId(id) ==
    IF id.kind \in {"int", "digits"} THEN IntValue(id.v + ViewerOffset) ELSE id

\* The copy made of one reference row.
DuplicateEntry(entry, sid) ==
    [entry EXCEPT !.Name = NewRowName(entry.Name),
                  !.PlaneStringID = sid,
                  !.AircraftViewerID = NewViewerId(entry.AircraftViewerID)]

OriginalF04eEntries(table) == SelectSeq(table, LAMBDA e : e.PlaneStringID = F04E)

\* A patcher that replaces the copies an earlier run made for the same plane.
DuplicateReplacingCopies(table, sid) ==
    LET refs == SelectSeq(table, LAMBDA e : e.PlaneStringID = F04E)
        kept == SelectSeq(table, LAMBDA e : e.PlaneStringID = F04E \/ e.PlaneStringID # sid)
    IN kept \o [i \in 1..Len(refs) |->
                   [refs[i] EXCEPT !.Name = IF refs[i].Name.kind = "row"
                                            THEN [kind |-> "row", n |-> refs[i].Name.n + ViewerOffset, tail |-> ""]
                                            ELSE refs[i].Name,
                                   !.PlaneStringID = sid]]

\* duplicate_aircraft_viewer on the loaded table: the saved table.
DuplicateAircraftViewer(table, sid) ==
    LET refs == OriginalF04eEntries(table)
    IN table \o [i \in 1..Len(refs) |-> DuplicateEntry(refs[i], sid)]

----------------------------------------------------------------------------
(* AircraftViewer documents and arguments *)

ViewerRow(name, s, id, slot) ==
    [Name |-> name, PlaneStringID |-> s, AircraftViewerID |-> id, SlotName |-> slot]

ViewerRows ==
    { ViewerRow(RowNamed(1), F04E, IntValue(1), "Hangar"),
      ViewerRow(RowNamed(2), F04E, DigitString(2), "Result"),
      ViewerRow(OtherName, F04E, TextValue, "Briefing"),
      ViewerRow(RowNamedWithTail(12), F04E, NoProperty, "Debrief"),
      ViewerRow(RowNamed(3), F18F, IntValue(3), "Hangar"),
      ViewerRow(RowNamed(4), F04E, NoneValue, "Tree"),
      ViewerRow(OtherName, F04E, IntValue(5), "Select") }

RECURSIVE SeqsUpTo(_, _)
SeqsUpTo(S, n) ==
    IF n = 0 THEN {<<>>}
    ELSE LET shorter == SeqsUpTo(S, n - 1)
         IN shorter \cup {Append(q, x) : q \in shorter, x \in S}

ViewerTargets == {ABC1, F18F, F04E}

InitViewer ==
    /\ pp = <<>>
    /\ ppNameMap = <<>>
    /\ skin = <<>>
    /\ skinNameMap = <<>>
    /\ av \in SeqsUpTo(ViewerRows, MaxViewerRows)
    /\ heap = <<>>
    /\ NoPipeline
    /\ calls = 0
    /\ last = NoCall

\* One call of duplicate_aircraft_viewer(input, ..., plane_string_id, logger).
DuplicateViewer ==
    /\ calls < MaxCalls
    /\ \E sid \in ViewerTargets :
          /\ av' = DuplicateAircraftViewer(av, sid)
          /\ last' = [op |-> "viewer", sid |-> sid, pre |-> av]
          /\ calls' = calls + 1
          /\ UNCHANGED <<pp, ppNameMap, skin, skinNameMap, heap, guiVars>>

NextViewer == DuplicateViewer

SpecViewer == InitViewer /\ [][NextViewer]_vars

----------------------------------------------------------------------------
(* Properties of the AircraftViewer patcher, checked under SpecViewer *)

ViewerPatched == last.op = "viewer"

F04eCount(table, k) ==
    Cardinality({j \in 1..k : table[j].PlaneStringID = F04E})

\* The index in table of its i-th row whose PlaneStringID is "f04e".
F04eIndex(table, i) ==
    CHOOSE k \in 1..Len(table) :
        table[k].PlaneStringID = F04E /\ F04eCount(table, k) = i

\* C10: with N rows of "f04e" in the table the call appends N rows, the i-th
\* a copy of the i-th "f04e" row with PlaneStringID the target identity,
\* AircraftViewerID the original + 294 when that is a number, and the name
\* Row_<n> turned into Row_<n+294>.
C10_AppendsOffsetCopies ==
    ViewerPatched =>
        LET N == F04eCount(last.pre, Len(last.pre))
        IN /\ Len(av) = Len(last.pre) + N
           /\ \A i \in 1..N :
                 LET src == last.pre[F04eIndex(last.pre, i)]
                     dst == av[Len(last.pre) + i]
                 IN /\ dst.PlaneStringID = last.sid
                    /\ dst.SlotName = src.SlotName
                    /\ src.AircraftViewerID.kind = "int" =>
                          dst.AircraftViewerID = IntValue(src.AircraftViewerID.v + ViewerOffset)
                    /\ src.Name = RowNamed(src.Name.n) =>
                          dst.Name = RowNamed(src.Name.n + ViewerOffset)

\* Two "f04e" rows, the first named Row_1 with the id 1, copied for another
\* plane as Row_295 with the id 295.
C10_TwoCopies ==
    /\ ViewerPatched /\ last.sid = ABC1
    /\ F04eCount(last.pre, Len(last.pre)) = 2
    /\ last.pre[1] = ViewerRow(RowNamed(1), F04E, IntValue(1), "Hangar")
    /\ av[Len(last.pre) + 1] = ViewerRow(RowNamed(295), ABC1, IntValue(295), "Hangar")

\* C11: a reference row whose AircraftViewerID is not a number (a text, None,
\* or no such property) or whose name is not Row_<digits> is copied and
\* appended all the same: that field is in the copy as it was in the original,
\* PlaneStringID is the target, and the one of name and id that is numeric is
\* raised by 294.
C11_SkipFieldKeepRow ==
    ViewerPatched =>
        LET N == F04eCount(last.pre, Len(last.pre))
        IN /\ Len(av) = Len(last.pre) + N
           /\ \A i \in 1..N :
                 LET src == last.pre[F04eIndex(last.pre, i)]
                     dst == av[Len(last.pre) + i]
                     numericId == src.AircraftViewerID.kind \in {"int", "digits"}
                     numericName == src.Name.kind = "row"
                 IN (~numericId \/ ~numericName) =>
                       /\ dst.PlaneStringID = last.sid
                       /\ dst.SlotName = src.SlotName
                       /\ dst.AircraftViewerID =
                             IF numericId THEN IntValue(src.AircraftViewerID.v + ViewerOffset)
                             ELSE src.AircraftViewerID
                       /\ dst.Name =
                             IF numericName THEN RowNamed(src.Name.n + ViewerOffset)
                             ELSE src.Name

\* A row named "Default" with a text id and a row Row_12x without the id
\* property, both copied: the first unchanged but for the plane, the second
\* renamed Row_306.
C11_TextIdAndNoId ==
    /\ ViewerPatched /\ last.sid = ABC1
    /\ last.pre = <<ViewerRow(OtherName, F04E, TextValue, "Briefing"),
                    ViewerRow(RowNamedWithTail(12), F04E, NoProperty, "Debrief")>>
    /\ av[3] = ViewerRow(OtherName, ABC1, TextValue, "Briefing")
    /\ av[4] = ViewerRow(RowNamed(306), ABC1, NoProperty, "Debrief")

\* The table after k successive runs for the same plane, each on the table
\* the run before it saved.
RECURSIVE SuccessiveRuns(_, _, _)
SuccessiveRuns(table, sid, k) ==
    IF k = 0 THEN table
    ELSE DuplicateAircraftViewer(SuccessiveRuns(table, sid, k - 1), sid)

\* C29: the call is a pure append and is not idempotent.  Every row of the
\* table it read is in the saved table, unchanged and at its place.  For a
\* target other than "f04e", with N rows of "f04e" read, the run appends N
\* rows and leaves N rows of "f04e", so k runs in a row leave k*N copies and
\* a run on the saved table changes it again when N > 0; the names of the
\* appended rows are those a run for any other plane appends.
C29_PureAppendNotIdempotent ==
    ViewerPatched =>
        LET n == Len(last.pre)
            N == F04eCount(last.pre, n)
        IN /\ Len(av) >= n
           /\ SubSeq(av, 1, n) = last.pre
           /\ last.sid # F04E =>
                 /\ Len(av) = n + N
                 /\ F04eCount(av, Len(av)) = N
                 /\ \A k \in 1..(MaxCalls + 1) :
                       LET after == SuccessiveRuns(last.pre, last.sid, k)
                       IN /\ Len(after) = n + k * N
                          /\ SubSeq(after, 1, n) = last.pre
                          /\ \A j \in (n + 1)..Len(after) :
                                after[j].PlaneStringID = last.sid
                 /\ N > 0 => DuplicateAircraftViewer(av, last.sid) # av
                 /\ \A other \in ViewerTargets \ {F04E} :
                       LET others == DuplicateAircraftViewer(last.pre, other)
                       IN /\ Len(others) = n + N
                          /\ \A i \in 1..N : others[n + i].Name = av[n + i].Name

\* Two "f04e" rows copied for "abc1" and then for "f18f": four copies after
\* the second run, the two blocks under the same names Row_295 and Row_296.
C29_TwoRunsTwoTargets ==
    /\ ViewerPatched /\ calls = 2 /\ last.sid = F18F
    /\ Len(last.pre) = 4 /\ Len(av) = 6
    /\ F04eCount(last.pre, 2) = 2
    /\ last.pre[3].PlaneStringID = ABC1 /\ last.pre[4].PlaneStringID = ABC1
    /\ av[5].PlaneStringID = F18F /\ av[6].PlaneStringID = F18F
    /\ av[3].Name = RowNamed(295) /\ av[5].Name = RowNamed(295)
    /\ av[4].Name = RowNamed(296) /\ av[6].Name = RowNamed(296)

----------------------------------------------------------------------------
(* Row synthesis on objects *)

(***************************************************************************)
(* The patchers build rows out of dicts and lists that json.load made.     *)
(* Here an object has an address (its index in heap) and holds scalars and *)
(* addresses.  A row dict is a "row" object whose Value is the address of  *)
(* its property list; the property list with its property dicts is one     *)
(* object; the SoftObjectPath dict of a Reference property, with the       *)
(* AssetPath dict inside it, is a "ref" object.                            *)
(***************************************************************************)
Null == 0

RowObj(name, value) == [type |-> "row", Name |-> name, Value |-> value]
PlanePropsObj(pid, sid, ref) ==
    [type |-> "planeprops", PlaneID |-> pid, PlaneStringID |-> sid, Reference |-> ref]
SkinPropsObj(id, no, sid, ref) ==
    [type |-> "skinprops", SkinID |-> id, SkinNo |-> no, PlaneStringID |-> sid,
     PlaneReference |-> ref]
RefObj(asset) == [type |-> "ref", AssetName |-> asset]

\* The addresses an object holds.
Children(o) ==
    IF o.type = "row" THEN {o.Value}
    ELSE IF o.type = "planeprops" THEN {o.Reference} \ {Null}
    ELSE {}

\* load_json of a PlayerPlane row (the template, or a row of the table) whose
\* Reference value is a SoftObjectPath dict (form "dict") or is None.
TemplateForms == {"dict", "none"}

LoadPlaneRow(h, form, name, pid, sid) ==
    IF form = "dict"
    THEN [heap |-> h \o <<RefObj(PawnClassPath(sid)),
                          PlanePropsObj(pid, sid, Len(h) + 1),
                          RowObj(name, Len(h) + 2)>>,
          root |-> Len(h) + 3]
    ELSE [heap |-> h \o <<PlanePropsObj(pid, sid, Null), RowObj(name, Len(h) + 1)>>,
          root |-> Len(h) + 2]

\* load_json of skin_template.json.
LoadSkinTemplate(h) ==
    [heap |-> h \o <<SkinPropsObj(SkinTemplate.SkinID, SkinTemplate.SkinNo,
                                  SkinTemplate.PlaneStringID, SkinTemplate.PlaneReference),
                     RowObj(SkinTemplate.Name, Len(h) + 1)>>,
     root |-> Len(h) + 2]

\* copy.copy: a new object that holds the addresses the original holds.
ShallowCopy(h, a) == [heap |-> Append(h, h[a]), root |-> Len(h) + 1]

\* copy.deepcopy: a new object for the object at a and for every object
\* under it.
RECURSIVE DeepCopy(_, _)
DeepCopy(h, a) ==
    LET o == h[a]
    IN IF o.type = "row"
       THEN LET c == DeepCopy(h, o.Value)
            IN [heap |-> Append(c.heap, [o EXCEPT !.Value = c.root]),
                root |-> Len(c.heap) + 1]
       ELSE IF o.type = "planeprops" /\ o.Reference # Null
       THEN LET c == DeepCopy(h, o.Reference)
            IN [heap |-> Append(c.heap, [o EXCEPT !.Reference = c.root]),
                root |-> Len(c.heap) + 1]
       ELSE [heap |-> Append(h, o), root |-> Len(h) + 1]

\* json.loads(json.dumps(x)): the text of x parsed into new objects.
JsonRoundTrip(h, a) == DeepCopy(h, a)

\* The Reference branch of the property walk on the property list at props:
\* AssetName assigned in the dict that is there, or a new dict put in.
WalkReference(h, props, sid) ==
    IF h[props].Reference # Null
    THEN [h EXCEPT ![h[props].Reference].AssetName = PawnClassPath(sid)]
    ELSE [Append(h, RefObj(PawnClassPath(sid))) EXCEPT ![props].Reference = Len(h) + 1]

\* The property walk of add_or_edit_player_plane on the row at address row.
WalkRowObject(h, row, mode, sid, pid) ==
    LET props == h[row].Value
        h1 == [h EXCEPT ![props].PlaneID = NewPlaneID(mode, pid, h[props].PlaneID),
                        ![props].PlaneStringID = sid]
    IN WalkReference(h1, props, sid)

\* add_or_edit_player_plane from its loads to the end of the property walk:
\* existing tells whether the table holds a row of sid.  rows are the
\* addresses of the rows made from the template.
SynthesizePlane(form, existing, mode, sid, pid) ==
    LET data == IF existing THEN LoadPlaneRow(<<>>, form, 101, 101, sid)
                ELSE [heap |-> <<>>, root |-> Null]
        tmpl == LoadPlaneRow(data.heap, form, PlaneTemplate.Name, PlaneTemplate.PlaneID,
                             PlaneTemplate.PlaneStringID)
    IN IF mode = "edit" /\ existing
       THEN [loaded |-> tmpl.heap, template |-> tmpl.root, rows |-> <<>>,
             heap |-> WalkRowObject(tmpl.heap, data.root, mode, sid, pid)]
       ELSE LET c == DeepCopy(tmpl.heap, tmpl.root)
                named == [c.heap EXCEPT ![c.root].Name = RowName(pid)]
            IN [loaded |-> tmpl.heap, template |-> tmpl.root, rows |-> <<c.root>>,
                heap |-> WalkRowObject(named, c.root, mode, sid, pid)]

\* make_entry on objects: the copy of template_obj with its properties set.
MakeEntryObject(h, tmpl, skin_id, plane, skin_no) ==
    LET c == JsonRoundTrip(h, tmpl)
        props == c.heap[c.root].Value
    IN [heap |-> [c.heap EXCEPT ![c.root].Name = skin_id,
                                ![props].SkinID = skin_id,
                                ![props].SkinNo = skin_no,
                                ![props].PlaneStringID = plane,
                                ![props].PlaneReference = PlaneReference(plane, skin_no)],
        root |-> c.root]

\* The loop of add_or_edit_skins on objects.
RECURSIVE SynthesizeSkinsFrom(_, _, _, _, _, _)
SynthesizeSkinsFrom(h, tmpl, sid, skins, next, rows) ==
    IF skins = <<>> THEN [heap |-> h, rows |-> rows]
    ELSE LET e == MakeEntryObject(h, tmpl, next, sid, skins[1].skin_no)
         IN SynthesizeSkinsFrom(e.heap, tmpl, sid, Tail(skins), next + 1,
                                Append(rows, e.root))

SynthesizeSkins(sid, skins) ==
    LET tmpl == LoadSkinTemplate(<<>>)
        r == SynthesizeSkinsFrom(tmpl.heap, tmpl.root, sid, skins, FirstSkinId, <<>>)
    IN [loaded |-> tmpl.heap, template |-> tmpl.root, rows |-> r.rows, heap |-> r.heap]

InitSynthesis ==
    /\ pp = <<>>
    /\ ppNameMap = <<>>
    /\ skin = <<>>
    /\ skinNameMap = <<>>
    /\ av = <<>>
    /\ heap = <<>>
    /\ NoPipeline
    /\ calls = 0
    /\ last = NoCall

Synthesized(r) ==
    /\ heap' = r.heap
    /\ last' = [op |-> "synthesis", loaded |-> r.loaded, template |-> r.template,
                rows |-> r.rows]
    /\ calls' = calls + 1
    /\ UNCHANGED <<pp, ppNameMap, skin, skinNameMap, av, guiVars>>

\* The objects of one call of add_or_edit_player_plane.
PlaneObjects ==
    /\ calls < MaxCalls
    /\ \E form \in TemplateForms, existing \in BOOLEAN, mode \in Modes,
          sid \in PlaneStrings, pid \in PlaneIdArgs :
          Synthesized(SynthesizePlane(form, existing, mode, sid, pid))

\* The objects of one call of add_or_edit_skins.
SkinObjects ==
    /\ calls < MaxCalls
    /\ \E sid \in SkinPlanes, skins \in SkinLists :
          Synthesized(SynthesizeSkins(sid, skins))

NextSynthesis == PlaneObjects \/ SkinObjects

SpecSynthesis == InitSynthesis /\ [][NextSynthesis]_vars

----------------------------------------------------------------------------
(* Properties of row synthesis, checked under SpecSynthesis *)

\* The addresses of the object at a and of every object under it.
RECURSIVE Reach(_, _)
Reach(h, a) ==
    {a} \cup UNION {Reach(h, b) : b \in Children(h[a])}

SynthesisDone == last.op = "synthesis"

\* C15: after the call every object of the template is as load_json built
\* it; the objects of two rows made from the template are disjoint, and so are
\* those of a row and of the template, so that a write through one cannot be
\* seen through another.
C15_TemplateKeptRowsApart ==
    SynthesisDone =>
        /\ \A a \in Reach(last.loaded, last.template) : heap[a] = last.loaded[a]
        /\ \A i \in 1..Len(last.rows) :
              Reach(heap, last.rows[i]) \cap Reach(heap, last.template) = {}
        /\ \A i, j \in 1..Len(last.rows) :
              i # j => Reach(heap, last.rows[i]) \cap Reach(heap, last.rows[j]) = {}

\* A plane row made from a template whose Reference is a dict: the row's
\* dict names the new plane, the template's still names the template's.
C15_ReferenceWrittenInCopy ==
    /\ SynthesisDone /\ Len(last.rows) = 1
    /\ heap[last.rows[1]].type = "row"
    /\ heap[heap[last.rows[1]].Value].type = "planeprops"
    /\ heap[heap[last.rows[1]].Value].Reference # Null
    /\ heap[heap[heap[last.rows[1]].Value].Reference].AssetName = PawnClassPath(ABC1)
    /\ heap[heap[last.template].Value].Reference # Null
    /\ heap[heap[heap[last.template].Value].Reference].AssetName = PawnClassPath(TMPL)

----------------------------------------------------------------------------
(* The pipeline: files, the form's run button, the worker thread *)

(***************************************************************************)
(* A file is named by its folder, its stem and its extension.  The content *)
(* of a table document is abstracted to the number of patches between it   *)
(* and the table that ships in Data/ (rev); a JSON file that lacks         *)
(* Exports[0].Table.Data is "garbage".                                     *)
(***************************************************************************)
PlayerPlaneTable == "PlayerPlaneDataTable"
SkinTable == "SkinDataTable"
ViewerTable == "AircraftViewerDataTable"

\* The tables in the order run() prepares, patches and converts them.
PatchOrder == <<PlayerPlaneTable, SkinTable, ViewerTable>>
Tables == {PatchOrder[i] : i \in 1..3}

JsonFile(dir, stem) == [dir |-> dir, stem |-> stem, ext |-> "json"]
UassetFile(dir, stem) == [dir |-> dir, stem |-> stem, ext |-> "uasset"]

\* DEFAULT_DATA_DIR / "player_plane_template.json", "skin_template.json"
PlaneTemplateFile == JsonFile("Data", "player_plane_template")
SkinTemplateFile == JsonFile("Data", "skin_template")
\* What _find_uassetgui_exe looks for.
UAssetGuiExe == [dir |-> "Data", stem |-> "UAssetGUI", ext |-> "exe"]

Dirs == {"Data", "Output"}

AllFiles ==
    {JsonFile(d, t) : d \in Dirs, t \in Tables} \cup {UassetFile(d, t) : d \in Dirs, t \in Tables}
        \cup {PlaneTemplateFile, SkinTemplateFile, UAssetGuiExe}

Absent == [kind |-> "absent", rev |-> 0]
TableDoc(rev) == [kind |-> "table", rev |-> rev]
Garbage == [kind |-> "garbage", rev |-> 0]
Present == [kind |-> "file", rev |-> 0]

\* os.path.exists / Path.exists
Exists(fs, f) == fs[f].kind # "absent"

\* An exception is the sequence <<text>>, no exception is <<>>.
NoError == <<>>
Raised(text) == <<text>>

\* resolve_input_file(base_name, data_dir): <<file>>, or <<>> for FileNotFoundError.
ResolveInputFile(fs, base_name, dir) ==
    IF Exists(fs, JsonFile(dir, base_name)) THEN <<JsonFile(dir, base_name)>>
    ELSE IF Exists(fs, UassetFile(dir, base_name)) THEN <<UassetFile(dir, base_name)>>
    ELSE <<>>

\* What UAssetGUI does when it is run: it writes its output and returns 0,
\* it fails (non-zero return code, timeout), or it returns 0 and has written
\* no output file.
ToolOutcomes == {"written", "failed", "nothing"}

\* normalize_to_json(raw): a .json path is returned as it is (tmp <<>>); a
\* .uasset is converted by uasset_to_json into a temporary JSON file, whose
\* content is tmp (Absent when the tool wrote nothing).
NormalizeToJson(fs, raw, tool) ==
    IF raw.ext = "json" THEN [error |-> NoError, raw |-> raw, tmp |-> <<>>]
    ELSE IF ~Exists(fs, UAssetGuiExe)
    THEN [error |-> Raised("UAssetGUI executable not found"), raw |-> raw, tmp |-> <<>>]
    ELSE IF tool = "failed"
    THEN [error |-> Raised("uasset_to_json failed"), raw |-> raw, tmp |-> <<>>]
    ELSE IF tool = "nothing" THEN [error |-> NoError, raw |-> raw, tmp |-> <<Absent>>]
    ELSE [error |-> NoError, raw |-> raw, tmp |-> <<fs[raw]>>]

\* prepare_input(base_name, data_dir, explicit): explicit is <<>> for None.
PrepareInput(fs, base_name, dir, explicit, tool) ==
    LET raw == IF explicit # <<>> THEN explicit ELSE ResolveInputFile(fs, base_name, dir)
    IN IF raw = <<>>
       THEN [error |-> Raised("Neither .json nor .uasset found"),
             raw |-> JsonFile(dir, base_name), tmp |-> <<>>]
       ELSE NormalizeToJson(fs, raw[1], tool)

\* load_json of a prepared input: the temporary file, or the .json itself.
InputDoc(fs, input) == IF input.tmp # <<>> THEN input.tmp[1] ELSE fs[input.raw]

\* dict.get(key): <<value>>, or <<>> for None.
ParamsGet(params, key) == IF key \in DOMAIN params THEN <<params[key]>> ELSE <<>>

\* The key of params that run() reads the explicit input of a table from.
InputKey(t) ==
    CASE t = PlayerPlaneTable -> "pp_input"
      [] t = SkinTable -> "s_input"
      [] t = ViewerTable -> "av_input"

\* save_json(data, Output/<stem>.json)
SaveJson(fs, stem, doc) == [fs EXCEPT ![JsonFile("Output", stem)] = doc]

\* The identities the form and the callers pass.
PipelineStrings == {EMPTY, ABC1}

\* The ValueError of all_ids.index, which depends on the identity alone:
\* whether the patch raises, for each mode and identity.
IdentityRejectedBy ==
    [mode \in Modes, sid \in PipelineStrings |->
        PatchPlayerPlane(PlaneTableF18F, <<>>, mode, sid, <<>>, <<>>).raised]

IdentityRejected(mode, sid) == IdentityRejectedBy[mode, sid]

\* A line passed to logger / log_signal.emit: its text, and the table it is
\* about ("" for none).
LogLine(text, about) == <<text, about>>

\* A patcher that raised: nothing saved, the lines it had logged.
PatcherRaised(fs, text, lines) == [error |-> Raised(text), fs |-> fs, log |-> lines]

\* A patcher that returned: save_json, then logger("[..] Wrote: ...").
PatcherWrote(fs, stem, doc, lines) ==
    [error |-> NoError, fs |-> SaveJson(fs, stem, TableDoc(doc.rev + 1)),
     log |-> Append(lines, LogLine("Wrote", stem))]

\* add_or_edit_player_plane on files: load_json(input), load_json(template),
\* the patch, save_json.
PlanePatcherOnFiles(fs, doc, mode, sid) ==
    LET progress == <<LogLine("[PlayerPlane] Editing existing / Adding new plane",
                              PlayerPlaneTable)>>
    IN IF doc.kind = "absent" THEN PatcherRaised(fs, "No such file: input", <<>>)
       ELSE IF ~Exists(fs, PlaneTemplateFile)
       THEN PatcherRaised(fs, "No such file: player_plane_template.json", <<>>)
       ELSE IF doc.kind = "garbage" THEN PatcherRaised(fs, "'Exports'", <<>>)
       ELSE IF IdentityRejected(mode, sid)
       THEN PatcherRaised(fs, "'' is not in list", progress)
       ELSE PatcherWrote(fs, PlayerPlaneTable, doc, progress)

\* add_or_edit_skins on files.
SkinPatcherOnFiles(fs, doc) ==
    IF doc.kind = "absent" THEN PatcherRaised(fs, "No such file: input", <<>>)
    ELSE IF ~Exists(fs, SkinTemplateFile)
    THEN PatcherRaised(fs, "No such file: skin_template.json", <<>>)
    ELSE IF doc.kind = "garbage" THEN PatcherRaised(fs, "'Exports'", <<>>)
    ELSE PatcherWrote(fs, SkinTable, doc, <<>>)

\* duplicate_aircraft_viewer on files.
ViewerPatcherOnFiles(fs, doc) ==
    IF doc.kind = "absent" THEN PatcherRaised(fs, "No such file: input", <<>>)
    ELSE IF doc.kind = "garbage" THEN PatcherRaised(fs, "'Exports'", <<>>)
    ELSE PatcherWrote(fs, ViewerTable, doc, <<>>)

\* A conversion that removes the JSON when json_to_uasset returned, without
\* looking for the .uasset.
ConvertRemoveUnchecked(fs, stem, tool) ==
    LET json_file == JsonFile("Output", stem)
        out_uasset == UassetFile("Output", stem)
    IN IF ~Exists(fs, UAssetGuiExe) \/ tool = "failed" THEN fs
       ELSE IF tool = "written"
       THEN [fs EXCEPT ![out_uasset] = fs[json_file], ![json_file] = Absent]
       ELSE [fs EXCEPT ![json_file] = Absent]

\* A conversion that removes the JSON whether json_to_uasset raised or not.
ConvertThenRemove(fs, stem, tool) ==
    LET json_file == JsonFile("Output", stem)
        out_uasset == UassetFile("Output", stem)
    IN IF ~Exists(fs, UAssetGuiExe) \/ tool # "written"
       THEN [fs EXCEPT ![json_file] = Absent]
       ELSE [fs EXCEPT ![out_uasset] = fs[json_file], ![json_file] = Absent]

\* One conversion of the loop in run(): json_to_uasset, then the removal of
\* the JSON when the .uasset and the JSON both exist.
ConvertOnFiles(fs, stem, tool) ==
    LET json_file == JsonFile("Output", stem)
        out_uasset == UassetFile("Output", stem)
    IN IF ~Exists(fs, UAssetGuiExe) \/ tool = "failed" THEN fs
       ELSE LET converted == IF tool = "written"
                             THEN [fs EXCEPT ![out_uasset] = fs[json_file]]
                             ELSE fs
            IN IF Exists(converted, out_uasset) /\ Exists(converted, json_file)
               THEN [converted EXCEPT ![json_file] = Absent]
               ELSE converted

\* The lines that turn of the loop emits.
ConvertLines(fs, stem, tool) ==
    LET json_file == JsonFile("Output", stem)
        after == ConvertOnFiles(fs, stem, tool)
    IN <<LogLine("Converting", stem)>>
       \o (IF ~Exists(fs, UAssetGuiExe) \/ tool = "failed"
           THEN <<LogLine("Failed to convert", stem)>>
           ELSE <<LogLine("Converted", stem)>>
                \o (IF Exists(fs, json_file) /\ ~Exists(after, json_file)
                    THEN <<LogLine("Deleted intermediate JSON", stem)>>
                    ELSE <<>>))

----------------------------------------------------------------------------
(* PipelineThread.run *)

\* An order of the statements with the Skin step first.
StepAfterSkinFirst(pc) ==
    CASE pc = "prepare" -> "skin"
      [] pc = "skin" -> "plane"
      [] pc = "plane" -> "viewer"
      [] pc = "viewer" -> "find_exe"
      [] pc = "find_exe" -> "convert"
      [] pc = "convert" -> "emit"
      [] pc = "emit" -> "done"

\* The statements of run() in their order.
StepAfter(pc) ==
    CASE pc = "prepare" -> "plane"
      [] pc = "plane" -> "skin"
      [] pc = "skin" -> "viewer"
      [] pc = "viewer" -> "find_exe"
      [] pc = "find_exe" -> "convert"
      [] pc = "convert" -> "emit"
      [] pc = "emit" -> "done"

NotSaved == [t \in Tables |-> <<>>]
NotPrepared == [t \in Tables |-> [error |-> NoError, raw |-> JsonFile("Data", t), tmp |-> <<>>]]
\* No text in the three input fields of the form.
NoOverrides == [t \in Tables |-> <<>>]

\* The input tables and templates a run from dir needs and fs does not hold.
Lacking(fs, dir) ==
    {t \in Tables : ResolveInputFile(fs, t, dir) = <<>>}
        \cup {f.stem : f \in {g \in {PlaneTemplateFile, SkinTemplateFile} : ~Exists(fs, g)}}

\* PipelineThread(params), started.  Kept with the thread, for the
\* properties: what the run lacked when it started (lacking), what the input
\* fields of the form held (overrides), the statements it has executed (log),
\* the documents it has saved (saved), the lines it has passed to log_signal
\* (emitted), what it has passed to finished_signal (finished), and the
\* number of the click that launched it (click).
NewWorker(params, fs) ==
    [pc |-> "prepare", params |-> params, inputs |-> NotPrepared, i |-> 0,
     saved |-> NotSaved, log |-> <<>>, lacking |-> Lacking(fs, params["data_dir"]),
     overrides |-> NoOverrides, emitted |-> <<>>, finished |-> <<>>, click |-> 0]

Active(w) == workers[w].pc # "done"

\* self.log_signal.emit("-> ... step"), the line before each patcher call.
Marker(step) ==
    CASE step = "plane" -> LogLine("-> PlayerPlane step", "")
      [] step = "skin" -> LogLine("-> SkinData step", "")
      [] step = "viewer" -> LogLine("-> AircraftViewer step", "")

\* An exception that is swallowed: run() goes on with the next statement.
FailsAndGoesOn(w, step, lines, error) ==
    /\ workers' = [workers EXCEPT ![w].pc = StepAfter(step),
                                  ![w].log = Append(@, step),
                                  ![w].emitted = @ \o lines,
                                  ![w].i = IF StepAfter(step) = "convert" THEN 1 ELSE 0]
    /\ UNCHANGED signals

\* The except clause of run(): finished_signal.emit(False, f"Pipeline failed: {e}")
Fails(w, step, lines, error) ==
    LET finished == [success |-> FALSE, message |-> <<"Pipeline failed: ", error[1]>>]
    IN /\ workers' = [workers EXCEPT ![w].pc = "done",
                                     ![w].log = Append(@, step),
                                     ![w].emitted = @ \o lines,
                                     ![w].finished = Append(@, finished)]
       /\ signals' = Append(signals, finished)

\* A statement of run() that ended without an exception.
Proceeds(w, step, lines, saved) ==
    /\ workers' = [workers EXCEPT ![w].pc = StepAfter(step),
                                  ![w].log = Append(@, step),
                                  ![w].emitted = @ \o lines,
                                  ![w].saved = saved,
                                  ![w].i = IF StepAfter(step) = "convert" THEN 1 ELSE 0]
    /\ UNCHANGED signals

\* The three prepare_input calls, and "Starting pipeline...".
Prepare(w) ==
    /\ workers[w].pc = "prepare"
    /\ \E tool \in ToolOutcomes :
          LET params == workers[w].params
              explicit == [t \in Tables |-> ParamsGet(params, InputKey(t))]
              prepared == [t \in Tables |->
                              PrepareInput(files, t, params["data_dir"], explicit[t], tool)]
              failed == {i \in 1..3 : prepared[PatchOrder[i]].error # NoError}
          IN IF failed # {}
             THEN LET first == CHOOSE i \in failed : \A j \in failed : i <= j
                  IN Fails(w, "prepare", <<>>, prepared[PatchOrder[first]].error)
             ELSE /\ workers' = [workers EXCEPT ![w].pc = StepAfter("prepare"),
                                                ![w].log = Append(@, "prepare"),
                                                ![w].emitted =
                                                    Append(@, LogLine("Starting pipeline...", "")),
                                                ![w].inputs = prepared]
                  /\ UNCHANGED signals
    /\ UNCHANGED <<files, dataDir, runBtn, calls, last>>
    /\ UNCHANGED <<pp, ppNameMap, skin, skinNameMap, av, heap>>

\* A patch step of run(): its marker line, then the patcher called on its
\* prepared input.
PatchStep(w, step, stem, r) ==
    /\ workers[w].pc = step
    /\ files' = r.fs
    /\ IF r.error # NoError THEN Fails(w, step, <<Marker(step)>> \o r.log, r.error)
       ELSE Proceeds(w, step, <<Marker(step)>> \o r.log,
                     [workers[w].saved EXCEPT ![stem] = <<r.fs[JsonFile("Output", stem)]>>])
    /\ UNCHANGED <<dataDir, runBtn, calls, last>>
    /\ UNCHANGED <<pp, ppNameMap, skin, skinNameMap, av, heap>>

PlaneStep(w) ==
    PatchStep(w, "plane", PlayerPlaneTable,
              PlanePatcherOnFiles(files, InputDoc(files, workers[w].inputs[PlayerPlaneTable]),
                                  workers[w].params["mode"],
                                  workers[w].params["player_values"].plane_string_id))

SkinStep(w) ==
    PatchStep(w, "skin", SkinTable,
              SkinPatcherOnFiles(files, InputDoc(files, workers[w].inputs[SkinTable])))

ViewerStep(w) ==
    PatchStep(w, "viewer", ViewerTable,
              ViewerPatcherOnFiles(files, InputDoc(files, workers[w].inputs[ViewerTable])))

\* uassetgui_exe = _find_uassetgui_exe(): without it the conversions are
\* skipped, and "Conversion finished." is emitted all the same.
FindExe(w) ==
    /\ workers[w].pc = "find_exe"
    /\ IF Exists(files, UAssetGuiExe)
       THEN Proceeds(w, "find_exe", <<>>, workers[w].saved)
       ELSE /\ workers' = [workers EXCEPT
                              ![w].pc = "emit",
                              ![w].log = Append(@, "find_exe"),
                              ![w].emitted = @ \o <<LogLine("UAssetGUI not found: skipping", ""),
                                                    LogLine("Conversion finished.", "")>>]
            /\ UNCHANGED signals
    /\ UNCHANGED <<files, dataDir, runBtn, calls, last>>
    /\ UNCHANGED <<pp, ppNameMap, skin, skinNameMap, av, heap>>

\* One turn of the loop over conversions; an exception of json_to_uasset is
\* logged and the loop goes on.  After the last turn: "Conversion finished."
ConvertStep(w) ==
    /\ workers[w].pc = "convert"
    /\ \E tool \in ToolOutcomes :
          LET stem == PatchOrder[workers[w].i]
              last_turn == workers[w].i = 3
          IN /\ files' = ConvertOnFiles(files, stem, tool)
             /\ workers' = [workers EXCEPT
                               ![w].i = IF last_turn THEN 0 ELSE @ + 1,
                               ![w].pc = IF last_turn THEN StepAfter("convert") ELSE @,
                               ![w].log = Append(@, "convert"),
                               ![w].emitted =
                                   @ \o ConvertLines(files, stem, tool)
                                     \o (IF last_turn
                                         THEN <<LogLine("Conversion finished.", "")>>
                                         ELSE <<>>)]
    /\ UNCHANGED <<signals, dataDir, runBtn, calls, last>>
    /\ UNCHANGED <<pp, ppNameMap, skin, skinNameMap, av, heap>>

\* self.params["data_dir"] = OUTPUT_DIR; finished_signal.emit(True, ...)
EmitFinished(w) ==
    LET finished == [success |-> TRUE, message |-> <<"Pipeline finished successfully.">>]
    IN /\ workers[w].pc = "emit"
       /\ workers' = [workers EXCEPT ![w].pc = StepAfter("emit"),
                                     ![w].log = Append(@, "emit"),
                                     ![w].params["data_dir"] = "Output",
                                     ![w].finished = Append(@, finished)]
       /\ signals' = Append(signals, finished)
       /\ UNCHANGED <<files, dataDir, runBtn, calls, last>>
       /\ UNCHANGED <<pp, ppNameMap, skin, skinNameMap, av, heap>>

----------------------------------------------------------------------------
(* MainWindow *)

PipelineSkins == {<<>>, SkinListUp(1)}
\* The text of a stat edit: an integer, or text that int() rejects.
StatTexts == {"5", "x"}

\* A start_pipeline whose checks of the form are left out.
StartErrorUnchecked(fs, dir, sid, skins, stat, tool) == NoError

\* start_pipeline up to the launch: the exception it raises, if any.
StartError(fs, dir, sid, skins, stat, tool) ==
    LET raw == ResolveInputFile(fs, PlayerPlaneTable, dir)
    IN IF raw = <<>> THEN Raised("Neither .json nor .uasset found")
       ELSE LET ppdt == NormalizeToJson(fs, raw[1], tool)
            IN IF ppdt.error # NoError THEN ppdt.error
               ELSE IF InputDoc(fs, ppdt).kind = "absent" THEN Raised("No such file: input")
               ELSE IF InputDoc(fs, ppdt).kind = "garbage" THEN Raised("'Exports'")
               ELSE IF ~TruthyStr(sid) THEN Raised("PlaneStringID is required.")
               ELSE IF stat = "x" THEN Raised("Stat must be an integer if provided.")
               ELSE IF skins = <<>> THEN Raised("No skins have been added.")
               ELSE NoError

\* self.worker = PipelineThread(params) rebinds the only reference to the
\* thread of the previous run: a thread that has returned from run() is
\* released, one that has not is still running.
StillRunning == SelectSeq(workers, LAMBDA t : t.pc # "done")

\* The text of the three "per-file overrides" fields at the click: left as
\* the form filled them (<<>>), or each set to the .uasset of its table in
\* Data/.
OverrideChoices == {NoOverrides, [t \in Tables |-> <<UassetFile("Data", t)>>]}

\* data_dir of start_pipeline: the folder of the PlayerPlaneDataTable field
\* when that file exists, else the Data folder field.
LaunchDir(fs, dir, overrides) ==
    LET ppdt_path == overrides[PlayerPlaneTable]
    IN IF ppdt_path # <<>> /\ Exists(fs, ppdt_path[1]) THEN ppdt_path[1].dir ELSE dir

\* A run button that start_pipeline leaves enabled.
RunBtnLeftEnabled == TRUE

\* self.run_btn.setEnabled(False)
RunBtnAfterLaunch == FALSE

\* A click on run_btn while it is enabled: start_pipeline.
StartPipeline ==
    /\ runBtn
    /\ calls < MaxCalls
    /\ \E mode \in Modes, sid \in PipelineStrings, skins \in PipelineSkins,
          stat \in StatTexts, tool \in ToolOutcomes, overrides \in OverrideChoices :
          LET data_dir == LaunchDir(files, dataDir, overrides)
              error == StartError(files, data_dir, sid, skins, stat, tool)
              params == [data_dir |-> data_dir,
                         player_values |-> [plane_string_id |-> sid],
                         skins |-> skins,
                         mode |-> mode]
          IN /\ last' = [op |-> "start_pipeline", sid |-> sid, skins |-> skins,
                         error |-> error, pre |-> files, threads |-> Len(workers)]
             /\ IF error # NoError
                THEN UNCHANGED <<runBtn, workers>>
                ELSE /\ runBtn' = RunBtnAfterLaunch
                     /\ workers' = Append(StillRunning,
                                          [NewWorker(params, files)
                                              EXCEPT !.overrides = overrides,
                                                     !.click = calls + 1])
    /\ calls' = calls + 1
    /\ UNCHANGED <<files, dataDir, signals>>
    /\ UNCHANGED <<pp, ppNameMap, skin, skinNameMap, av, heap>>

\* A click on run_btn while it is disabled: the button emits no clicked
\* signal, start_pipeline is not called and nothing is kept of the click.
ClickWhileDisabled ==
    /\ ~runBtn
    /\ calls < MaxCalls
    /\ last' = [op |-> "click_ignored", sid |-> EMPTY, skins |-> <<>>,
                error |-> NoError, pre |-> files, threads |-> Len(workers),
                click |-> calls + 1]
    /\ calls' = calls + 1
    /\ UNCHANGED <<files, dataDir, runBtn, workers, signals>>
    /\ UNCHANGED <<pp, ppNameMap, skin, skinNameMap, av, heap>>

\* A slot that takes the signal and leaves run_btn as it is.
OnPipelineFinishedKeepsBusy ==
    /\ signals # <<>>
    /\ dataDir' = IF signals[1].success THEN "Output" ELSE dataDir
    /\ signals' = Tail(signals)
    /\ UNCHANGED <<runBtn, files, workers, calls, last>>
    /\ UNCHANGED <<pp, ppNameMap, skin, skinNameMap, av, heap>>

\* The slot connected to finished_signal.
OnPipelineFinished ==
    /\ signals # <<>>
    /\ runBtn' = TRUE
    /\ dataDir' = IF signals[1].success THEN "Output" ELSE dataDir
    /\ signals' = Tail(signals)
    /\ UNCHANGED <<files, workers, calls, last>>
    /\ UNCHANGED <<pp, ppNameMap, skin, skinNameMap, av, heap>>

\* add_or_edit_player_plane called on Data/PlayerPlaneDataTable.json by a
\* caller other than the worker, while no run is in progress.
CallPlanePatcher ==
    /\ calls < MaxCalls
    /\ \A w \in 1..Len(workers) : ~Active(w)
    /\ signals = <<>>
    /\ \E mode \in Modes, sid \in PipelineStrings :
          LET r == PlanePatcherOnFiles(files, files[JsonFile("Data", PlayerPlaneTable)],
                                       mode, sid)
          IN /\ files' = r.fs
             /\ last' = [op |-> "add_or_edit_player_plane", sid |-> sid, skins |-> <<>>,
                         error |-> r.error, pre |-> files, threads |-> Len(workers)]
    /\ calls' = calls + 1
    /\ UNCHANGED <<dataDir, runBtn, workers, signals>>
    /\ UNCHANGED <<pp, ppNameMap, skin, skinNameMap, av, heap>>

\* The explicit path prepare_input is called with for table t: none, or the
\* .uasset of the table in Data/.
ExplicitChoices(t) == {<<>>, <<UassetFile("Data", t)>>}

\* prepare_input called by a caller other than the worker, while no run is
\* in progress.
CallPrepareInput ==
    /\ calls < MaxCalls
    /\ \A w \in 1..Len(workers) : ~Active(w)
    /\ signals = <<>>
    /\ \E t \in Tables, dir \in Dirs, tool \in ToolOutcomes :
          \E explicit \in ExplicitChoices(t) :
             last' = [op |-> "prepare_input", sid |-> EMPTY, skins |-> <<>>,
                      error |-> NoError, pre |-> files, threads |-> Len(workers),
                      base_name |-> t, data_dir |-> dir, explicit |-> explicit,
                      prepared |-> PrepareInput(files, t, dir, explicit, tool)]
    /\ calls' = calls + 1
    /\ UNCHANGED <<files, dataDir, runBtn, workers, signals>>
    /\ UNCHANGED <<pp, ppNameMap, skin, skinNameMap, av, heap>>

----------------------------------------------------------------------------
(* The folders the runs start from *)

InputKinds == {"json", "uasset", "both", "garbage", "absent"}

\* The content of Data/<table>.json and Data/<table>.uasset for an input kind.
InputContent(kind, ext) ==
    IF kind = "garbage" THEN (IF ext = "json" THEN Garbage ELSE Absent)
    ELSE IF kind = ext \/ kind = "both" THEN TableDoc(0)
    ELSE Absent

FileSystem(inputs, templates, exe) ==
    [f \in AllFiles |->
        IF f.dir = "Data" /\ f.stem \in Tables THEN InputContent(inputs[f.stem], f.ext)
        ELSE IF f \in templates THEN Present
        ELSE IF f = UAssetGuiExe /\ exe THEN Present
        ELSE Absent]

\* All tables as .json, all as .uasset or all as both, and the first two
\* with one table missing or unreadable.
InputChoices ==
    LET uniform == {[t \in Tables |-> e] : e \in {"json", "uasset"}}
    IN uniform \cup {[t \in Tables |-> "both"]}
               \cup {[u EXCEPT ![t] = k] : u \in uniform, t \in Tables,
                                           k \in {"garbage", "absent"}}

TemplateChoices ==
    { {PlaneTemplateFile, SkinTemplateFile}, {PlaneTemplateFile}, {SkinTemplateFile} }

\* Every choice of inputs with both templates, and the .json inputs with
\* one template missing; with and without UAssetGUI.
InitFileSystems ==
    {FileSystem(inputs, {PlaneTemplateFile, SkinTemplateFile}, exe) :
        inputs \in InputChoices, exe \in BOOLEAN}
    \cup {FileSystem([t \in Tables |-> "json"], templates, exe) :
            templates \in TemplateChoices, exe \in BOOLEAN}

InitPipeline ==
    /\ pp = <<>>
    /\ ppNameMap = <<>>
    /\ skin = <<>>
    /\ skinNameMap = <<>>
    /\ av = <<>>
    /\ heap = <<>>
    /\ files \in InitFileSystems
    /\ dataDir = "Data"
    /\ runBtn = TRUE
    /\ workers = <<>>
    /\ signals = <<>>
    /\ calls = 0
    /\ last = NoCall

\* The threads that exist.
Threads == 1..Len(workers)

NextPipeline ==
    \/ StartPipeline
    \/ ClickWhileDisabled
    \/ OnPipelineFinished
    \/ CallPlanePatcher
    \/ CallPrepareInput
    \/ \E w \in Threads : Prepare(w)
    \/ \E w \in Threads : PlaneStep(w)
    \/ \E w \in Threads : SkinStep(w)
    \/ \E w \in Threads : ViewerStep(w)
    \/ \E w \in Threads : FindExe(w)
    \/ \E w \in Threads : ConvertStep(w)
    \/ \E w \in Threads : EmitFinished(w)

SpecPipeline == InitPipeline /\ [][NextPipeline]_vars

\* QThread.start() runs run() on a thread of its own: a statement of run()
\* that can be executed is executed.  Every statement returns or raises: the
\* patchers loop over finite tables and the converter is called with a
\* timeout.
ThreadRuns ==
    \E w \in Threads :
        \/ Prepare(w) \/ PlaneStep(w) \/ SkinStep(w) \/ ViewerStep(w)
        \/ FindExe(w) \/ ConvertStep(w) \/ EmitFinished(w)

\* The event loop of the application delivers a queued finished_signal to
\* its slot.
EventLoopDelivers == OnPipelineFinished

\* The folders of the runs followed to their end: all tables as .json, with
\* and without UAssetGUI; and, without UAssetGUI, all tables as .uasset, the
\* .json tables with one of them unreadable or missing, and the .json tables
\* with a template missing.
LiveFileSystems ==
    {FileSystem([t \in Tables |-> "json"], {PlaneTemplateFile, SkinTemplateFile}, exe) :
        exe \in BOOLEAN}
    \cup {FileSystem([[u \in Tables |-> "json"] EXCEPT ![t] = k],
                     {PlaneTemplateFile, SkinTemplateFile}, FALSE) :
            t \in Tables, k \in {"garbage", "absent"}}
    \cup {FileSystem([t \in Tables |-> "uasset"],
                     {PlaneTemplateFile, SkinTemplateFile}, FALSE)}
    \cup {FileSystem([t \in Tables |-> "json"], templates, FALSE) :
            templates \in TemplateChoices}

InitPipelineLive ==
    /\ pp = <<>>
    /\ ppNameMap = <<>>
    /\ skin = <<>>
    /\ skinNameMap = <<>>
    /\ av = <<>>
    /\ heap = <<>>
    /\ files \in LiveFileSystems
    /\ dataDir = "Data"
    /\ runBtn = TRUE
    /\ workers = <<>>
    /\ signals = <<>>
    /\ calls = 0
    /\ last = NoCall

SpecPipelineLive ==
    InitPipelineLive /\ [][NextPipeline]_vars
        /\ WF_vars(ThreadRuns) /\ WF_vars(EventLoopDelivers)

----------------------------------------------------------------------------
(* Properties of the pipeline, checked under SpecPipeline *)

\* C18: a start_pipeline with an empty PlaneStringID or with no skin rows
\* raises: no thread is started, no file is written or changed, run_btn stays
\* enabled; and add_or_edit_player_plane called with an empty identity raises
\* and leaves the files as they were.
C18_RejectedBeforeMutation ==
    /\ (last.op = "start_pipeline" /\ (~TruthyStr(last.sid) \/ last.skins = <<>>)) =>
          /\ last.error # NoError
          /\ Len(workers) = last.threads
          /\ \A w \in Threads : ~Active(w)
          /\ files = last.pre
          /\ runBtn
    /\ (last.op = "add_or_edit_player_plane" /\ ~TruthyStr(last.sid)) =>
          /\ last.error # NoError
          /\ files = last.pre

\* After a run that went through, a click with the identity left empty and
\* one skin row: refused for the identity.
C18_EmptyIdentityAfterARun ==
    /\ last.op = "start_pipeline" /\ last.sid = EMPTY /\ last.skins # <<>>
    /\ last.error = Raised("PlaneStringID is required.")
    /\ Len(workers) = 1 /\ dataDir = "Output" /\ runBtn

\* C19: a run started while an input table or a template file was missing
\* saves no output JSON, of any of the three tables.
C19_NothingSavedWhenLacking ==
    \A w \in Threads :
        workers[w].lacking # {} => \A t \in Tables : workers[w].saved[t] = <<>>

\* The document that thread w saved for table t is in Output/.
OnDisk(w, t) ==
    /\ workers[w].saved[t] # <<>>
    /\ files[JsonFile("Output", t)] = workers[w].saved[t][1]

\* The place of a statement in run().
Place(step) ==
    CASE step = "prepare" -> 0
      [] step = "plane" -> 1
      [] step = "skin" -> 2
      [] step = "viewer" -> 3
      [] step = "find_exe" -> 4
      [] step = "convert" -> 5
      [] step = "emit" -> 6

\* C20: a thread executes PlayerPlane, Skin, AircraftViewer, then the
\* conversions, in that order and one at a time; when a patch step is about
\* to start the JSON of every earlier patch step is in Output/, and no
\* conversion is executed before the three documents were saved.
C20_StepsInOrder ==
    /\ Cardinality({w \in Threads : Active(w)}) <= 1
    /\ \A w \in Threads :
          LET log == workers[w].log
          IN /\ \A i \in 1..Len(log) :
                   /\ i > 1 => Place(log[i - 1]) <= Place(log[i])
                   /\ (i > 1 /\ log[i] # "convert") => Place(log[i - 1]) < Place(log[i])
                   /\ log[i] \in {"plane", "skin", "viewer"} => Place(log[i]) = i - 1
                   /\ log[i] = "skin" => workers[w].saved[PlayerPlaneTable] # <<>>
                   /\ log[i] = "viewer" => workers[w].saved[SkinTable] # <<>>
                   /\ log[i] = "convert" => \A t \in Tables : workers[w].saved[t] # <<>>
             /\ workers[w].pc = "skin" => OnDisk(w, PlayerPlaneTable)
             /\ workers[w].pc = "viewer" => OnDisk(w, PlayerPlaneTable) /\ OnDisk(w, SkinTable)
             /\ workers[w].pc = "find_exe" => \A t \in Tables : OnDisk(w, t)

\* A run that executed every statement, the three conversions included.
C20_FullRun ==
    \E w \in Threads :
        /\ workers[w].pc = "done"
        /\ workers[w].log = <<"prepare", "plane", "skin", "viewer", "find_exe",
                               "convert", "convert", "convert", "emit">>
        /\ \A t \in Tables : Exists(files, UassetFile("Output", t))

PatchSteps == {"plane", "skin", "viewer"}

\* The table a patch step saves.
TableOf(step) ==
    CASE step = "plane" -> PlayerPlaneTable
      [] step = "skin" -> SkinTable
      [] step = "viewer" -> ViewerTable

\* The last "-> ... step" line among lines: <<line>>, or <<>> for none.
LastMarker(lines) ==
    LET at == {i \in 1..Len(lines) : \E step \in PatchSteps : lines[i] = Marker(step)}
    IN IF at = {} THEN <<>>
       ELSE <<lines[CHOOSE i \in at : \A j \in at : j <= i]>>

\* Thread w executed the patch step at place i of its log and the step
\* raised: it saved nothing.
RaisedAt(w, i) ==
    /\ i \in 1..Len(workers[w].log)
    /\ workers[w].log[i] \in PatchSteps
    /\ workers[w].saved[TableOf(workers[w].log[i])] = <<>>

\* The JSON that thread w saved for table t remains in place: the file is in
\* Output/, and until the run's finished signal has been handled (no other
\* call can have written it again) its content is the saved document.
InPlace(w, t) ==
    /\ workers[w].saved[t] # <<>>
    /\ Exists(files, JsonFile("Output", t))
    /\ (Active(w) \/ signals # <<>>) => OnDisk(w, t)

\* C21: when a patch step raises, run() executes nothing after it (no patch
\* step, no conversion), the JSON documents saved by the earlier steps of the
\* run are still in Output/, the thread emits finished(False, ...), and what
\* the run reported (its log lines, then the finished message) names the
\* failed step: the last "-> ... step" line is the one of that step.
C21_FailedStepStopsRun ==
    \A w \in Threads :
        \A i \in 1..Len(workers[w].log) :
            RaisedAt(w, i) =>
                /\ i = Len(workers[w].log)
                /\ workers[w].pc = "done"
                /\ \A j \in 1..Len(workers[w].emitted) :
                      workers[w].emitted[j][1] \notin {"Converting", "Converted"}
                /\ \A j \in 1..(i - 1) :
                      workers[w].log[j] \in PatchSteps => InPlace(w, TableOf(workers[w].log[j]))
                /\ Len(workers[w].finished) = 1
                /\ ~workers[w].finished[1].success
                /\ workers[w].finished[1].message[1] = "Pipeline failed: "
                /\ LastMarker(workers[w].emitted) = <<Marker(workers[w].log[i])>>

\* A run whose Skin step raised after the PlayerPlane step had saved: the
\* failure was reported and handled, Output/PlayerPlaneDataTable.json is
\* there, no Skin or AircraftViewer output is.
C21_SkinStepRaised ==
    \E w \in Threads :
        /\ workers[w].log = <<"prepare", "plane", "skin">>
        /\ RaisedAt(w, 3)
        /\ OnDisk(w, PlayerPlaneTable)
        /\ ~Exists(files, JsonFile("Output", SkinTable))
        /\ ~Exists(files, JsonFile("Output", ViewerTable))
        /\ workers[w].finished = <<[success |-> FALSE,
                                    message |-> <<"Pipeline failed: ", "'Exports'">>]>>
        /\ signals = <<>> /\ runBtn

\* The lines of thread w, as a set.
Emitted(w) == {workers[w].emitted[j] : j \in 1..Len(workers[w].emitted)}

\* Thread w is past the conversions.
PastConversions(w) == workers[w].pc \in {"emit", "done"}

PatchedAll(w) == \A t \in Tables : workers[w].saved[t] # <<>>

\* C23: a run removes the output JSON of a table only after json_to_uasset
\* returned for that table and with the .uasset of the table in Output/; and
\* from the end of the three patch steps on, every table has its output JSON
\* or its .uasset in Output/, whichever conversions failed.
C23_JsonOrUassetRemains ==
    \A w \in Threads :
        /\ \A t \in Tables :
              LogLine("Deleted intermediate JSON", t) \in Emitted(w) =>
                  /\ LogLine("Converted", t) \in Emitted(w)
                  /\ LogLine("Failed to convert", t) \notin Emitted(w)
                  /\ Exists(files, UassetFile("Output", t))
        /\ PatchedAll(w) =>
              \A t \in Tables :
                  \/ Exists(files, JsonFile("Output", t))
                  \/ Exists(files, UassetFile("Output", t))

\* A finished run with the three outcomes: the PlayerPlane conversion wrote
\* the .uasset and the JSON was removed, UAssetGUI returned for Skin without
\* writing a .uasset and the JSON was kept, the AircraftViewer conversion
\* failed and the JSON was kept.
C23_RemovedOnlyWithUasset ==
    \E w \in Threads :
        /\ workers[w].pc = "done" /\ PatchedAll(w)
        /\ LogLine("Deleted intermediate JSON", PlayerPlaneTable) \in Emitted(w)
        /\ ~Exists(files, JsonFile("Output", PlayerPlaneTable))
        /\ Exists(files, UassetFile("Output", PlayerPlaneTable))
        /\ LogLine("Converted", SkinTable) \in Emitted(w)
        /\ Exists(files, JsonFile("Output", SkinTable))
        /\ ~Exists(files, UassetFile("Output", SkinTable))
        /\ LogLine("Failed to convert", ViewerTable) \in Emitted(w)
        /\ Exists(files, JsonFile("Output", ViewerTable))
        /\ ~Exists(files, UassetFile("Output", ViewerTable))

\* The threads that have not returned from run().
Running == {w \in Threads : Active(w)}

\* C24: at most one PipelineThread is running; from the launch until the
\* run's finished signal has been handled run_btn is disabled; and a click
\* made while it is disabled is not kept: as long as that click is the last
\* request no thread exists that was launched after it, also once the gate
\* is open again.
C24_OneRunAtATime ==
    /\ Cardinality(Running) <= 1
    /\ (Running # {} \/ signals # <<>>) => ~runBtn
    /\ \A w \in Threads : Len(workers[w].finished) = 0 => ~runBtn
    /\ last.op = "click_ignored" =>
          /\ Len(workers) = last.threads
          /\ \A w \in Threads : workers[w].click < last.click

\* A click while the run was in progress, and the state after the run ended
\* and its signal was handled: the gate is open, one thread exists, the one
\* launched before the click.
C24_IgnoredClickThenIdle ==
    /\ last.op = "click_ignored"
    /\ runBtn /\ signals = <<>>
    /\ Len(workers) = 1 /\ workers[1].pc = "done" /\ workers[1].click = 1
    /\ last.click = 2

\* The order of the claim: the explicit path when one is supplied, otherwise
\* <name>.json in dir when it exists, otherwise <name>.uasset there; <<>>
\* when there is none of them.
InputInOrder(fs, base_name, dir, explicit) ==
    IF explicit # <<>> THEN explicit
    ELSE IF Exists(fs, JsonFile(dir, base_name)) THEN <<JsonFile(dir, base_name)>>
    ELSE IF Exists(fs, UassetFile(dir, base_name)) THEN <<UassetFile(dir, base_name)>>
    ELSE <<>>

\* C25: prepare_input called directly returns as its source the explicit
\* path when one is given, otherwise the .json of the data directory when it
\* exists, otherwise the .uasset (and raises when there is neither); and a
\* run launched from the form reads, for each of the three tables, the file
\* of that order, the text of the table's override field being the explicit
\* path.
C25_InputOrder ==
    /\ last.op = "prepare_input" =>
          LET source == InputInOrder(last.pre, last.base_name, last.data_dir, last.explicit)
          IN IF source = <<>> THEN last.prepared.error # NoError
             ELSE last.prepared.raw = source[1]
    /\ \A w \in Threads :
          workers[w].pc = "plane" =>
              \A t \in Tables :
                  LET source == InputInOrder(files, t, workers[w].params["data_dir"],
                                             workers[w].overrides[t])
                  IN source # <<>> /\ workers[w].inputs[t].raw = source[1]

\* The threads launched by click c.
RunOf(c) == {w \in Threads : workers[w].click = c}

\* What thread w has passed to finished_signal so far, against what it has
\* executed: nothing while it runs and one signal once it has returned;
\* True when the preparation and the three patch steps have completed (the
\* run then went through the conversions to the emit), False when the last
\* statement executed is the preparation or a patch step, which raised.
FinishedAsRun(w) ==
    LET t == workers[w]
    IN /\ Len(t.finished) <= 1
       /\ Active(w) <=> t.finished = <<>>
       /\ t.finished # <<>> =>
             /\ Len(t.log) > 0
             /\ t.finished[1].success <=> PatchedAll(w)
             /\ t.finished[1].success => t.log[Len(t.log)] = "emit"
             /\ ~t.finished[1].success =>
                   /\ t.log[Len(t.log)] \in {"prepare"} \cup PatchSteps
                   /\ ~PatchedAll(w)
                   /\ \A i \in 1..Len(t.log) : t.log[i] \notin {"find_exe", "convert", "emit"}

\* C30: every started run emits exactly one finished signal and emits it
\* eventually, with success True exactly when the preparation and the three
\* patch steps completed without raising, whatever the conversions did, and
\* False otherwise; run_btn is enabled whenever no thread runs and no signal
\* waits, and a disabled run_btn is enabled again eventually, with the
\* signal handled and the thread returned.
C30_RunFinishesGateReopens ==
    /\ [](\A w \in Threads : FinishedAsRun(w))
    /\ []((Running = {} /\ signals = <<>>) => runBtn)
    /\ \A c \in 1..MaxCalls :
          (\E w \in RunOf(c) : Active(w)) ~>
              (\E w \in RunOf(c) : ~Active(w) /\ Len(workers[w].finished) = 1)
    /\ (~runBtn) ~> (runBtn /\ signals = <<>> /\ Running = {})

\* A run whose three conversions all failed, ended with finished(True, ...),
\* the signal handled and run_btn enabled again.
C30_SuccessAfterFailedConversions ==
    /\ Len(workers) = 1
    /\ workers[1].pc = "done"
    /\ workers[1].finished = <<[success |-> TRUE,
                                message |-> <<"Pipeline finished successfully.">>]>>
    /\ \A t \in Tables : LogLine("Failed to convert", t) \in Emitted(1)
    /\ Exists(files, UAssetGuiExe)
    /\ signals = <<>> /\ runBtn /\ dataDir = "Output"

============================================================================
